---- MODULE Spec2Model ----
(***************************************************************************)
(* WasherWatch (LaundryQueue): the machine reservation state machine of    *)
(* the uid-based QueueProvider (src/context/QueueContext.tsx) on top of    *)
(* the Realtime Database adapter (src/utilities/firebaseRealtime.ts).      *)
(*                                                                         *)
(* Spec is the provider of one room; SpecTxn calls the two transactions    *)
(* directly, SpecSeed splits seeding into its observation and its write,   *)
(* SpecRooms adds room switching, SpecNotif is the e-mail keyed inbox.     *)
(*                                                                         *)
(* In Spec, `store` is the authoritative room in the                       *)
(* database, `cache[c]` is client c's last delivered snapshot (the React   *)
(* state `machines` / `machinesRef.current`).  A transaction is one atomic *)
(* read-modify-write of a stored record; every other write replaces the    *)
(* whole stored record with what the writer built from its own snapshot.   *)
(*                                                                         *)
(* A JavaScript null / undefined / absent field is NULL (the empty tuple); *)
(* a present number or string v is the 1-tuple <<v>>; an ISO-8601 time     *)
(* string is <<"iso", ms>>.  Arrays of identities are sets.                *)
(***************************************************************************)
EXTENDS Integers, Sequences, FiniteSets, Bags, TLC

\* ---------------------------------------------------------------- bounds
NumMachines == 1
\* user operations plus clock advances in one behaviour
MaxEvents == 4

\* ------------------------------------------------------ program constants
REMINDER_THROTTLE_MS == 60000
MS_PER_MIN == 60000
SKIP_TARGET_MS == 10000
DEFAULT_DURATION_MIN == 35

\* the clock advances by one throttle window, which is also one minute of duration
TimeStep == REMINDER_THROTTLE_MS

NULL == <<>>

Clients == {"c1", "c2"}
\* a caller with no signed-in user (getAuth().currentUser is null)
SignedOut == "c0"
\* getAuth().currentUser?.uid of each client
currentUid(c) == IF c = "c1" THEN <<"u1">> ELSE IF c = "c2" THEN <<"u2">> ELSE NULL
\* getAuth().currentUser?.email
currentEmail(c) == IF c = "c1" THEN <<"u1@x">> ELSE IF c = "c2" THEN <<"u2@x">> ELSE NULL
\* the display name MachineCard passes to startMachine
currentName(c) == IF c = "c1" THEN <<"U1">> ELSE IF c = "c2" THEN <<"U2">> ELSE NULL

MACHINE_DEFINITIONS == 1 .. NumMachines
\* durations offered to the user, in minutes
DURATIONS == {1}

\* ------------------------------------------------------------ JS helpers
Get(r, k) == IF k \in DOMAIN r THEN r[k] ELSE NULL
\* a ?? b
Coalesce(a, b) == IF a # NULL THEN a ELSE b
\* truthiness of a nullable number
Truthy(x) == x # NULL /\ x[1] # 0
\* { ...a, ...b }
Spread(a, b) == b @@ a
\* new Date(ms).toISOString()
toISOString(ms) == <<"iso", ms>>
\* Date.parse(iso) / new Date(iso).getTime()
DateParse(iso) == iso[2]

createBlankMachine(id) ==
  [ id |-> id,
    state |-> "available",
    ownerEmail |-> NULL,
    ownerName |-> NULL,
    ownerUid |-> NULL,
    startTime |-> NULL,
    durationMin |-> NULL,
    expectedFinishTime |-> NULL,
    completedAt |-> NULL,
    completionNotifiedAt |-> NULL,
    lastReminderSent |-> NULL,
    reminderCount |-> <<0>>,
    reminderSubscribers |-> {},
    reminderSubscribersUid |-> {} ]

createInitialMachineMap == [m \in MACHINE_DEFINITIONS |-> createBlankMachine(m)]

INITIAL_MACHINE_MAP == createInitialMachineMap

\* normalizeMachine without the derivation of a missing expectedFinishTime
normalizeMachine_NoDerive(id, value) ==
  LET base == INITIAL_MACHINE_MAP[id]
      ownerEmail == Coalesce(Get(value, "ownerEmail"), Coalesce(Get(value, "ownerId"), base.ownerEmail))
      ownerUid == Coalesce(Get(value, "ownerUid"), base.ownerUid)
      startTime == Coalesce(Get(value, "startTime"), base.startTime)
      durationMin == Coalesce(Get(value, "durationMin"), base.durationMin)
      eft0 == Coalesce(Get(value, "expectedFinishTime"), base.expectedFinishTime)
      expectedFinishTime ==
        eft0
  IN Spread(Spread(base, value),
       [ id |-> id,
         ownerEmail |-> ownerEmail,
         ownerUid |-> ownerUid,
         ownerName |-> Coalesce(Get(value, "ownerName"), Coalesce(ownerEmail, Coalesce(ownerUid, base.ownerName))),
         startTime |-> startTime,
         durationMin |-> durationMin,
         expectedFinishTime |-> expectedFinishTime,
         reminderSubscribers |-> IF "reminderSubscribers" \in DOMAIN value
                                 THEN value.reminderSubscribers ELSE base.reminderSubscribers,
         reminderSubscribersUid |-> IF "reminderSubscribersUid" \in DOMAIN value
                                    THEN value.reminderSubscribersUid ELSE base.reminderSubscribersUid,
         reminderCount |-> Coalesce(Get(value, "reminderCount"), base.reminderCount),
         lastReminderSent |-> Coalesce(Get(value, "lastReminderSent"), base.lastReminderSent) ])

normalizeMachine(id, value) ==
  LET base == INITIAL_MACHINE_MAP[id]
      ownerEmail == Coalesce(Get(value, "ownerEmail"), Coalesce(Get(value, "ownerId"), base.ownerEmail))
      ownerUid == Coalesce(Get(value, "ownerUid"), base.ownerUid)
      startTime == Coalesce(Get(value, "startTime"), base.startTime)
      durationMin == Coalesce(Get(value, "durationMin"), base.durationMin)
      eft0 == Coalesce(Get(value, "expectedFinishTime"), base.expectedFinishTime)
      expectedFinishTime ==
        IF eft0 = NULL /\ startTime # NULL /\ Truthy(durationMin)
        THEN toISOString(DateParse(startTime) + durationMin[1] * MS_PER_MIN)
        ELSE eft0
  IN Spread(Spread(base, value),
       [ id |-> id,
         ownerEmail |-> ownerEmail,
         ownerUid |-> ownerUid,
         ownerName |-> Coalesce(Get(value, "ownerName"), Coalesce(ownerEmail, Coalesce(ownerUid, base.ownerName))),
         startTime |-> startTime,
         durationMin |-> durationMin,
         expectedFinishTime |-> expectedFinishTime,
         reminderSubscribers |-> IF "reminderSubscribers" \in DOMAIN value
                                 THEN value.reminderSubscribers ELSE base.reminderSubscribers,
         reminderSubscribersUid |-> IF "reminderSubscribersUid" \in DOMAIN value
                                    THEN value.reminderSubscribersUid ELSE base.reminderSubscribersUid,
         reminderCount |-> Coalesce(Get(value, "reminderCount"), base.reminderCount),
         lastReminderSent |-> Coalesce(Get(value, "lastReminderSent"), base.lastReminderSent) ])

\* ----------------------------------------------------------------- state
VARIABLES
  store,          \* rooms/{room}/machines : machine id -> record, NULL when absent
  cache,          \* per client: machinesRef.current / machines
  inbox,          \* notificationsByUid: bag of persisted notification records
  now,            \* Date.now()
  last,           \* the last user operation and its outcome
  okReminder,     \* per machine: time and caller of the latest sendReminder that returned true
  completions,    \* per machine: completion notifications persisted since the last committed start
  notifications,  \* per client: the provider's local list of the notifications it recorded
  pendingSeeds,   \* clients whose seeding write (writeMachines) is still in flight
  roomStore,      \* rooms/{roomId}/machines for every room
  currentRoomId,  \* per client: the provider's currentRoomId state
  lastWrite,      \* the provider's latest store write: its target room and the writer's active room
  notifStore,     \* notifications/{emailKey}: per recipient the stored records, in key order
  delivered,      \* per recipient: the list last handed to the inbox subscriber
  lastSend,       \* the outcome of the latest sendNotification call
  processingRef,  \* per client: processingRef.current of the provider's tick
  tickRuns,       \* per client: the tick executions that have begun and not yet returned
  lastTick,       \* the latest firing of a tick interval and how it went
  mounted,        \* per client: whether its provider is mounted
  effects,        \* per client: the runs of the machines subscription effect that can still act
  roomsEffect,    \* per client: the run of the rooms subscription effect
  rooms,          \* per client: the provider's rooms list
  selectedRoom,   \* per client: the room the user last picked from the rooms list, if it is still the pick
  raw,            \* a machine id and the value stored for it, as a snapshot hands it over
  norm,           \* normalizeMachine of it, NULL before it has been read
  db,             \* per client: whether the adapter's module variable db is set
  setup,          \* per client: how the provider's machines setup went
  lastCall,       \* the latest call made while db was not set, and its outcome
  mockStore,      \* state.machines[room] of the in-memory mock store
  lastMock,       \* the latest call made on both stores and what each returned
  pickupTimeoutsRef,  \* per client and machine: the pending auto-pickup timeout, if any
  lastPickup      \* the latest operation of the provider with auto-pickup and its effect

\* the state of the machines of one room as one provider per client sees it
machineVars == <<store, cache, inbox, now, last, okReminder, completions, notifications>>
\* the state used only when seeding, rooms or the email inbox are looked at
extraVars == <<pendingSeeds, roomStore, currentRoomId, lastWrite, notifStore, delivered, lastSend,
               processingRef, tickRuns, lastTick, mounted, effects, roomsEffect, rooms, selectedRoom,
               raw, norm, db, setup, lastCall, mockStore, lastMock,
               pickupTimeoutsRef, lastPickup>>
\* the state of a tick followed await by await
tickVars == <<processingRef, tickRuns, lastTick>>
\* the state of the subscription effects
subVars == <<mounted, effects, roomsEffect, rooms, selectedRoom>>
\* the state looked at only by the step-by-step specifications
\* the state of one read through normalizeMachine
normVars == <<raw, norm>>
\* the state of the adapter's initialization
initVars == <<db, setup, lastCall>>
\* the state of the in-memory mock store run side by side with the live one
mockVars == <<mockStore, lastMock>>
\* the state of the e-mail keyed provider with the auto-pickup timeout
pickupVars == <<pickupTimeoutsRef, lastPickup>>
\* the state of the specifications that follow the provider's
lateVars == <<mockVars, pickupVars>>
moreVars == <<tickVars, subVars, normVars, initVars, lateVars>>

vars == <<store, cache, inbox, now, last, okReminder, completions, notifications,
          pendingSeeds, roomStore, currentRoomId, lastWrite, notifStore, delivered, lastSend,
          processingRef, tickRuns, lastTick, mounted, effects, roomsEffect, rooms, selectedRoom,
          raw, norm, db, setup, lastCall, mockStore, lastMock,
          pickupTimeoutsRef, lastPickup>>

\* the room a provider starts in when the URL names none
DEFAULT_ROOM == "default"
Rooms == {DEFAULT_ROOM, "r2"}
\* the room keys of the database, in the order a snapshot of rooms/ lists them
RoomKeyOrder == <<DEFAULT_ROOM, "r2", "r3">>
\* the rooms the subscription effects are followed over
SubRooms == {RoomKeyOrder[i] : i \in DOMAIN RoomKeyOrder}
\* recipients of e-mail keyed notifications
Recipients == {"a@x", "b@x"}

\* encodeEmail(email): the path segment of the realtime adapter's inbox
encodeEmail(email) == <<"uri", email>>
\* btoa(email): the path segment of the webhook-forwarding adapter's inbox
btoa(email) == <<"b64", email>>
NotifKeys == {encodeEmail(e) : e \in Recipients} \cup {btoa(e) : e \in Recipients}

\* state.machines.default of the mock store: { id, label, state: 'available' }
MOCK_MACHINES == [m \in MACHINE_DEFINITIONS |-> [id |-> m, state |-> "available"]]

\* no room holds anything yet
RoomsInit == roomStore = [r \in SubRooms |-> [m \in MACHINE_DEFINITIONS |-> NULL]]

\* nothing in flight, every provider in the default room, no e-mail keyed
\* notification stored
ExtraInit ==
  /\ pendingSeeds = {}
  /\ currentRoomId = [c \in Clients |-> DEFAULT_ROOM]
  /\ lastWrite = NULL
  /\ notifStore = [k \in NotifKeys |-> <<>>]
  /\ delivered = [e \in Recipients |-> <<>>]
  /\ lastSend = [n |-> 0, op |-> "none", to |-> NULL, hook |-> "unset", id |-> NULL, threw |-> FALSE]
  /\ processingRef = [c \in Clients |-> FALSE]
  /\ tickRuns = [c \in Clients |-> <<>>]
  /\ lastTick = [n |-> 0, c |-> "c1", kind |-> "none", snapshot |-> NULL, failed |-> {}]
  /\ mounted = [c \in Clients |-> TRUE]
  /\ effects = [c \in Clients |-> {[room |-> DEFAULT_ROOM, active |-> TRUE, stage |-> "awaiting"]}]
  /\ roomsEffect = [c \in Clients |-> [active |-> TRUE, stage |-> "awaiting", seen |-> NULL]]
  /\ rooms = [c \in Clients |-> {}]
  /\ selectedRoom = [c \in Clients |-> NULL]
  /\ lastCall = [n |-> 0, c |-> "c1", op |-> "none", outcome |-> "none"]
  /\ lastMock = [n |-> 0, c |-> "c1", op |-> "none", m |-> 1, same |-> TRUE,
                 live |-> FALSE, mock |-> FALSE]
  /\ pickupTimeoutsRef = [c \in Clients |-> [m \in MACHINE_DEFINITIONS |-> NULL]]
  /\ lastPickup = [n |-> 0, op |-> "none", c |-> "c1", m |-> 1, ok |-> FALSE,
                   pre |-> NULL, post |-> NULL, timer |-> NULL]

\* main.tsx has called initFirebase() and every provider's setup has subscribed
ReadyInit ==
  /\ db = [c \in Clients |-> TRUE]
  /\ setup = [c \in Clients |-> "subscribed"]

Init ==
  /\ store = [m \in MACHINE_DEFINITIONS |-> NULL]
  /\ cache = [c \in Clients |-> INITIAL_MACHINE_MAP]
  /\ inbox = EmptyBag
  /\ now = TimeStep
  /\ last = [n |-> 0, op |-> "none", c |-> "c1", m |-> 1, ok |-> FALSE, at |-> 0,
             pre |-> NULL, post |-> NULL, loc |-> NULL, sent |-> EmptyBag, prevRem |-> NULL,
             threw |-> FALSE, localPre |-> EmptyBag, localPost |-> EmptyBag]
  /\ okReminder = [m \in MACHINE_DEFINITIONS |-> NULL]
  /\ completions = [m \in MACHINE_DEFINITIONS |-> 0]
  /\ notifications = [c \in Clients |-> EmptyBag]
  /\ ExtraInit
  /\ RoomsInit
  /\ mockStore = MOCK_MACHINES
  /\ ReadyInit
  /\ raw = [id |-> 1, value |-> NULL]
  /\ norm = NULL

\* sendNotificationToUid: one record pushed under notificationsByUid/{uid}
Notification(uid, type, m, ts) == [to |-> uid, type |-> type, machineId |-> m, ts |-> ts]

\* getNotifications(userKey) of client c's provider: what it recorded under that key
getNotifications(c, userKey) ==
  LET B == notifications[c]
  IN [n \in {x \in BagToSet(B) : x.to = userKey} |-> B[n]]

\* ------------------------------------------------------------- the clock
\* events so far: user operations and clock advances
Events == last.n + (now \div TimeStep) - 1

\* a record some timer of which is still running at time t: an unelapsed cycle or an
\* open throttle window
TimerRunning(r, t) ==
  /\ r # NULL
  /\ \/ r.expectedFinishTime # NULL /\ DateParse(r.expectedFinishTime) > t
     \/ r.lastReminderSent # NULL /\ r.lastReminderSent[1] + REMINDER_THROTTLE_MS > t

\* time passes; only the passing of time that can expire something is modelled
Advance ==
  /\ Events < MaxEvents
  /\ \E m \in MACHINE_DEFINITIONS :
        TimerRunning(store[m], now) \/ \E c \in Clients : TimerRunning(cache[c][m], now)
  /\ now' = now + TimeStep
  /\ UNCHANGED <<store, cache, inbox, last, okReminder, completions, notifications>>
  /\ UNCHANGED extraVars

\* ------------------------------------------------- machines subscription
RoomEmpty(data) == \A m \in MACHINE_DEFINITIONS : data[m] = NULL

\* the onValue callback of subscribeToMachinesForRoom: an empty room is seeded with
\* the blank catalog (writeMachines), any other snapshot is normalized into the list
Sync(c) ==
  /\ IF RoomEmpty(store)
     THEN /\ store' = createInitialMachineMap
          /\ cache' = [cache EXCEPT ![c] = createInitialMachineMap]
     ELSE /\ cache' = [cache EXCEPT ![c] =
               [m \in MACHINE_DEFINITIONS |->
                  IF store[m] = NULL THEN NULL ELSE normalizeMachine(m, store[m])]]
          /\ UNCHANGED store
  /\ UNCHANGED <<inbox, now, last, okReminder, completions, notifications>>
  /\ UNCHANGED extraVars

\* ------------------------------------------------------------ transactions
\* result of a transaction update function: the next value, abort (undefined), or an
\* exception thrown while computing it
Abort == [commit |-> FALSE, value |-> NULL, threw |-> FALSE]
Commit(v) == [commit |-> TRUE, value |-> v, threw |-> FALSE]
Throw == [commit |-> FALSE, value |-> NULL, threw |-> TRUE]

\* try/catch without the catch: the exception reaches the caller
Caught_Rethrows(r) == r

\* the try { ... } catch (err) { console.error(...); return false; } around runTransaction
Caught(r) == IF r.threw THEN Abort ELSE r

\* startMachineUpdate without the check that another identity holds the machine
startMachineUpdate_NoOwnerCheck(current, uid, email, displayName, updatedFields, t) ==
  Commit(Spread(Spread(current, updatedFields),
    [ state |-> "in-use",
      startTime |-> toISOString(t),
      durationMin |-> Coalesce(Get(updatedFields, "durationMin"), <<DEFAULT_DURATION_MIN>>),
      expectedFinishTime |-> toISOString(t + Coalesce(Get(updatedFields, "durationMin"), <<DEFAULT_DURATION_MIN>>)[1] * MS_PER_MIN),
      completedAt |-> NULL,
      completionNotifiedAt |-> NULL,
      ownerUid |-> uid,
      ownerEmail |-> email,
      ownerName |-> Coalesce(displayName, Coalesce(Get(updatedFields, "ownerName"), email)) ]))

\* the update function of startMachineTransaction, run on the stored value
startMachineUpdate(current, uid, email, displayName, updatedFields, t) ==
  LET durationMin == Coalesce(Get(updatedFields, "durationMin"), <<DEFAULT_DURATION_MIN>>)
      ownerName == Coalesce(displayName, Coalesce(Get(updatedFields, "ownerName"), email))
      common == Spread(Spread(current, updatedFields),
        [ state |-> "in-use",
          startTime |-> toISOString(t),
          durationMin |-> durationMin,
          expectedFinishTime |-> toISOString(t + durationMin[1] * MS_PER_MIN),
          completedAt |-> NULL,
          completionNotifiedAt |-> NULL,
          ownerUid |-> uid,
          ownerEmail |-> email,
          ownerName |-> ownerName ])
  IN IF current = NULL THEN Commit(common)
     ELSE IF current.state = "available" THEN Commit(common)
     ELSE IF current.state = "in-use" /\ current.ownerUid # NULL /\ current.ownerUid # uid THEN Abort
     ELSE Commit(common)

\* startMachineTransaction: false without a signed-in uid, else the transaction's outcome
startMachineTransaction(current, uid, email, displayName, updatedFields, t) ==
  IF uid = NULL THEN Abort
  ELSE Caught(startMachineUpdate(current, uid, email, displayName, updatedFields, t))

\* finishMachineUpdate releasing an in-use machine whoever calls
finishMachineUpdate_NoOwnerCheck(current, uid, resetFields) ==
  IF current = NULL THEN Abort
  ELSE IF current.state = "in-use"
       THEN Commit(Spread(Spread(current, resetFields),
              [ ownerUid |-> NULL,
                state |-> "available",
                lastReminderSent |-> NULL,
                reminderCount |-> <<0>>,
                reminderSubscribers |-> {} ]))
       ELSE Abort

\* the update function of finishMachineTransaction; reading current.state of a
\* missing record throws a TypeError
finishMachineUpdate(current, uid, resetFields) ==
  IF current = NULL THEN Throw
  ELSE IF current.state = "in-use" /\ current.ownerUid = uid
       THEN Commit(Spread(Spread(current, resetFields),
              [ ownerUid |-> NULL,
                state |-> "available",
                lastReminderSent |-> NULL,
                reminderCount |-> <<0>>,
                reminderSubscribers |-> {} ]))
       ELSE Abort

finishMachineTransaction(current, uid, resetFields) ==
  IF uid = NULL THEN Abort
  ELSE Caught(finishMachineUpdate(current, uid, resetFields))

\* ------------------------------------------------------------ user actions
CanOp(c) == Events < MaxEvents

\* the record of a user operation: caller, machine, outcome, the stored record before
\* (pre) and after (post), the caller's snapshot of it (loc), the notifications sent
Op(name, c, m, ok, sent) ==
  [ n |-> last.n + 1, op |-> name, c |-> c, m |-> m, ok |-> ok, at |-> now,
    pre |-> store[m], post |-> store'[m], loc |-> cache[c][m], sent |-> sent,
    prevRem |-> okReminder[m], threw |-> FALSE,
    localPre |-> notifications[c], localPost |-> notifications'[c] ]

\* what startMachine builds from its snapshot and hands to the transaction
startFields(machine, c, durationMin, t) ==
  Spread(machine,
    [ state |-> "in-use",
      ownerEmail |-> currentEmail(c),
      ownerName |-> Coalesce(currentName(c), currentEmail(c)),
      ownerUid |-> currentUid(c),
      startTime |-> toISOString(t),
      durationMin |-> <<durationMin>>,
      expectedFinishTime |-> toISOString(t + durationMin * MS_PER_MIN),
      completedAt |-> NULL,
      completionNotifiedAt |-> NULL,
      lastReminderSent |-> NULL,
      reminderCount |-> <<0>>,
      reminderSubscribers |-> machine.reminderSubscribers,
      reminderSubscribersUid |-> machine.reminderSubscribersUid ])

StartMachine(c, m, durationMin) ==
  /\ CanOp(c)
  /\ cache[c][m] # NULL
  /\ LET updated == startFields(cache[c][m], c, durationMin, now)
         r == startMachineTransaction(store[m], currentUid(c), currentEmail(c), currentName(c), updated, now)
     IN /\ IF r.commit
           THEN /\ store' = [store EXCEPT ![m] = r.value]
                /\ cache' = [cache EXCEPT ![c][m] = normalizeMachine(m, r.value)]
                /\ completions' = [completions EXCEPT ![m] = 0]
           ELSE UNCHANGED <<store, cache, completions>>
        /\ UNCHANGED notifications
        /\ last' = Op("start", c, m, r.commit, EmptyBag)
  /\ UNCHANGED <<inbox, now, okReminder>>
  /\ UNCHANGED extraVars

\* the pickup notifications finishMachine sends, from its snapshot's subscribers
pickupNotifications(machine, t) ==
  SetToBag({Notification(<<u>>, "pickup", machine.id, t) : u \in machine.reminderSubscribersUid})

\* the reset record without the timing fields cleared
resetFields_KeepsTiming(machine) ==
  Spread(machine,
    [ state |-> "available",
      ownerEmail |-> NULL,
      ownerName |-> NULL,
      ownerUid |-> NULL,
      expectedFinishTime |-> NULL,
      completedAt |-> NULL,
      completionNotifiedAt |-> NULL,
      lastReminderSent |-> NULL,
      reminderCount |-> <<0>>,
      reminderSubscribers |-> {},
      reminderSubscribersUid |-> {} ])

\* the reset record finishMachine builds from its snapshot and hands to the transaction
resetFields(machine) ==
  Spread(machine,
    [ state |-> "available",
      ownerEmail |-> NULL,
      ownerName |-> NULL,
      ownerUid |-> NULL,
      startTime |-> NULL,
      durationMin |-> NULL,
      expectedFinishTime |-> NULL,
      completedAt |-> NULL,
      completionNotifiedAt |-> NULL,
      lastReminderSent |-> NULL,
      reminderCount |-> <<0>>,
      reminderSubscribers |-> {},
      reminderSubscribersUid |-> {} ])

FinishMachine(c, m) ==
  /\ CanOp(c)
  /\ cache[c][m] # NULL
  /\ LET machine == cache[c][m]
         sent == pickupNotifications(machine, now)
         r == finishMachineTransaction(store[m], currentUid(c), resetFields(machine))
     IN /\ inbox' = inbox (+) sent
        /\ notifications' = [notifications EXCEPT ![c] = @ (+) sent]
        /\ IF r.commit
           THEN /\ store' = [store EXCEPT ![m] = r.value]
                /\ cache' = [cache EXCEPT ![c][m] = normalizeMachine(m, r.value)]
           ELSE UNCHANGED <<store, cache>>
        /\ last' = Op("finish", c, m, r.commit, sent)
  /\ UNCHANGED <<now, okReminder, completions>>
  /\ UNCHANGED extraVars

\* ---------------------------------------------------------------- reminders
\* the checks of sendReminder (uid-based provider) before it does anything
reminderAccepted(machine, t) ==
  LET finishTs == IF machine.expectedFinishTime # NULL THEN <<DateParse(machine.expectedFinishTime)>> ELSE NULL
      timerExpired == finishTs # NULL /\ t >= finishTs[1]
      readyToRemind == machine.state = "finished" \/ timerExpired
  IN /\ readyToRemind
     /\ ~(Truthy(machine.lastReminderSent) /\ t - machine.lastReminderSent[1] < REMINDER_THROTTLE_MS)

\* the record written back without the caller among the subscribers
reminderUpdated_NoSubscribe(machine, callerUid, t) ==
  Spread(machine,
    [ lastReminderSent |-> <<t>>,
      reminderCount |-> <<Coalesce(machine.reminderCount, <<0>>)[1] + 1>> ])

\* the record sendReminder writes back
reminderUpdated(machine, callerUid, t) ==
  Spread(machine,
    [ lastReminderSent |-> <<t>>,
      reminderCount |-> <<Coalesce(machine.reminderCount, <<0>>)[1] + 1>>,
      reminderSubscribersUid |-> machine.reminderSubscribersUid \cup
                                 (IF callerUid # NULL THEN {callerUid[1]} ELSE {}) ])

SendReminder(c, m) ==
  /\ CanOp(c)
  /\ LET machine == cache[c][m]
         ok == machine # NULL /\ reminderAccepted(machine, now)
     IN IF ~ok
        THEN /\ UNCHANGED <<store, cache, inbox, okReminder, notifications>>
             /\ last' = Op("remind", c, m, FALSE, EmptyBag)
        ELSE LET updated == reminderUpdated(machine, currentUid(c), now)
                 sent == IF machine.ownerUid # NULL
                         THEN SetToBag({Notification(machine.ownerUid, "reminder", m, now)})
                         ELSE EmptyBag
             IN /\ inbox' = inbox (+) sent
                /\ notifications' = [notifications EXCEPT ![c] = @ (+) sent]
                /\ store' = [store EXCEPT ![m] = updated]
                /\ cache' = [cache EXCEPT ![c][m] = normalizeMachine(m, updated)]
                /\ okReminder' = [okReminder EXCEPT ![m] = [t |-> now, c |-> c]]
                /\ last' = Op("remind", c, m, TRUE, sent)
  /\ UNCHANGED <<now, completions>>
  /\ UNCHANGED extraVars

\* --------------------------------------------------------------------- tick
\* finishTs of the tick: the cached expectedFinishTime, else startTime + durationMin
tickFinishTs(machine) ==
  IF machine.expectedFinishTime # NULL THEN <<DateParse(machine.expectedFinishTime)>>
  ELSE IF machine.startTime # NULL /\ Truthy(machine.durationMin)
       THEN <<DateParse(machine.startTime) + machine.durationMin[1] * MS_PER_MIN>>
       ELSE NULL

\* tickElapsed without the comparison against the clock
tickElapsed_NoClock(machine, t) ==
  /\ machine # NULL
  /\ machine.state = "in-use"
  /\ Truthy(tickFinishTs(machine))

\* the machines of the snapshot the tick flips to finished
tickElapsed(machine, t) ==
  /\ machine # NULL
  /\ machine.state = "in-use"
  /\ Truthy(tickFinishTs(machine))
  /\ t >= tickFinishTs(machine)[1]

\* whether the tick sends the completion notification for this machine
tickNotifies(machine) == ~Truthy(machine.completionNotifiedAt) /\ machine.ownerUid # NULL

tickUpdated(machine, t) ==
  Spread(machine,
    [ state |-> "finished",
      completedAt |-> Coalesce(machine.completedAt, toISOString(t)),
      expectedFinishTime |-> Coalesce(machine.expectedFinishTime, toISOString(tickFinishTs(machine)[1])),
      completionNotifiedAt |-> IF tickNotifies(machine) THEN <<t>>
                               ELSE Coalesce(machine.completionNotifiedAt, <<t>>) ])

\* one tick: for every elapsed in-use machine of the snapshot the completion
\* notification is sent (when not yet recorded as sent), the local list is replaced
\* and the finished record is written over the stored one
Tick(c) ==
  /\ LET snapshot == cache[c]
         elapsed == {m \in MACHINE_DEFINITIONS : tickElapsed(snapshot[m], now)}
         notified == {m \in elapsed : tickNotifies(snapshot[m])}
         sent == SetToBag({Notification(snapshot[m].ownerUid, "completion", m, now) : m \in notified})
     IN /\ elapsed # {}
        /\ inbox' = inbox (+) sent
        /\ notifications' = [notifications EXCEPT ![c] = @ (+) sent]
        /\ completions' = [m \in MACHINE_DEFINITIONS |->
                             IF m \in notified THEN completions[m] + 1 ELSE completions[m]]
        /\ cache' = [cache EXCEPT ![c] =
                       [m \in MACHINE_DEFINITIONS |->
                          IF m \in elapsed THEN tickUpdated(snapshot[m], now) ELSE snapshot[m]]]
        /\ store' = [m \in MACHINE_DEFINITIONS |->
                       IF m \in elapsed THEN tickUpdated(snapshot[m], now) ELSE store[m]]
  /\ UNCHANGED <<now, last, okReminder>>
  /\ UNCHANGED extraVars

\* -------------------------------------------------------------- skip forward
\* the Navbar's skip-forward handler: every in-use machine of the snapshot is
\* rewritten with expectedFinishTime shifted by one delta
skipCandidates(machines) ==
  {m \in MACHINE_DEFINITIONS :
     machines[m] # NULL /\ machines[m].state = "in-use" /\ machines[m].expectedFinishTime # NULL}

skipDelta(machines, t) ==
  LET cands == skipCandidates(machines)
      target == CHOOSE m \in cands :
                  \A k \in cands : DateParse(machines[m].expectedFinishTime)
                                     <= DateParse(machines[k].expectedFinishTime)
  IN (t + SKIP_TARGET_MS) - DateParse(machines[target].expectedFinishTime)

skipUpdated(machine, delta) ==
  Spread(machine, [expectedFinishTime |-> toISOString(DateParse(machine.expectedFinishTime) + delta)])

SkipForward(c) ==
  /\ CanOp(c)
  /\ LET machines == cache[c]
         cands == skipCandidates(machines)
     IN /\ cands # {}
        /\ LET delta == skipDelta(machines, now)
               any == CHOOSE m \in cands : TRUE
           IN /\ store' = [m \in MACHINE_DEFINITIONS |->
                             IF m \in cands THEN skipUpdated(machines[m], delta) ELSE store[m]]
              /\ cache' = [cache EXCEPT ![c] =
                             [m \in MACHINE_DEFINITIONS |->
                                IF m \in cands THEN normalizeMachine(m, skipUpdated(machines[m], delta))
                                ELSE machines[m]]]
              /\ UNCHANGED notifications
              /\ last' = Op("skip", c, any, TRUE, EmptyBag)
  /\ UNCHANGED <<inbox, now, okReminder, completions>>
  /\ UNCHANGED extraVars

\* ------------------------------------------------------------ machine card
\* isOwner of MachineCard: by uid, and by e-mail only for a record without ownerUid
isOwner(machine, uid, currentUserEmail) ==
  LET ownerUid == Get(machine, "ownerUid")
      isOwnerByUid == uid # NULL /\ ownerUid # NULL /\ ownerUid = uid
      isOwnerByEmail == /\ Get(machine, "ownerEmail") # NULL
                        /\ currentUserEmail # NULL
                        /\ machine.ownerEmail = currentUserEmail
  IN isOwnerByUid \/ (ownerUid = NULL /\ isOwnerByEmail)

\* the button rendered for finished machines only
SendReminderButton_FinishedOnly(machine, uid, currentUserEmail) ==
  machine.state = "finished" /\ ~isOwner(machine, uid, currentUserEmail)

\* whether the card renders the Send reminder button
SendReminderButton(machine, uid, currentUserEmail) ==
  (machine.state = "finished" \/ machine.state = "in-use") /\ ~isOwner(machine, uid, currentUserEmail)

\* ------------------------------------------------------------ specification
Next ==
  \/ Advance
  \/ \E c \in Clients : Sync(c)
  \/ \E c \in Clients, m \in MACHINE_DEFINITIONS, d \in DURATIONS : StartMachine(c, m, d)
  \/ \E c \in Clients, m \in MACHINE_DEFINITIONS : FinishMachine(c, m)
  \/ \E c \in Clients, m \in MACHINE_DEFINITIONS : SendReminder(c, m)
  \/ \E c \in Clients : Tick(c)
  \/ \E c \in Clients : SkipForward(c)

Spec == Init /\ [][Next]_vars

\* ------------------------------------------- the transactions on their own
\* startMachineTransaction and finishMachineTransaction called directly, by any
\* caller (signed in or not), on any stored record (missing, blank, in use, finished)
Callers == Clients \cup {SignedOut}

InUseBy(c, m) ==
  startMachineUpdate(NULL, currentUid(c), currentEmail(c), currentName(c),
                     startFields(createBlankMachine(m), c, 1, 0), 0).value

FinishedBy(c, m) == tickUpdated(InUseBy(c, m), TimeStep)

TxnRecords(m) ==
  {NULL, createBlankMachine(m)} \cup {InUseBy(c, m) : c \in Clients}
                               \cup {FinishedBy(c, m) : c \in Clients}

TxnInit ==
  /\ store \in [MACHINE_DEFINITIONS -> UNION {TxnRecords(m) : m \in MACHINE_DEFINITIONS}]
  /\ \A m \in MACHINE_DEFINITIONS : store[m] \in TxnRecords(m)
  /\ cache = [c \in Clients |-> INITIAL_MACHINE_MAP]
  /\ inbox = EmptyBag
  /\ now = TimeStep
  /\ last = [n |-> 0, op |-> "none", c |-> "c1", m |-> 1, ok |-> FALSE, at |-> 0,
             pre |-> NULL, post |-> NULL, loc |-> NULL, sent |-> EmptyBag, prevRem |-> NULL,
             threw |-> FALSE, localPre |-> EmptyBag, localPost |-> EmptyBag]
  /\ okReminder = [m \in MACHINE_DEFINITIONS |-> NULL]
  /\ completions = [m \in MACHINE_DEFINITIONS |-> 0]
  /\ notifications = [c \in Clients |-> EmptyBag]
  /\ ExtraInit
  /\ RoomsInit
  /\ mockStore = MOCK_MACHINES
  /\ ReadyInit
  /\ raw = [id |-> 1, value |-> NULL]
  /\ norm = NULL

\* the outcome of one call as its caller sees it
TxnOp(name, c, m, r) ==
  [ n |-> last.n + 1, op |-> name, c |-> c, m |-> m, ok |-> r.commit, at |-> now,
    pre |-> store[m], post |-> store'[m], loc |-> NULL, sent |-> EmptyBag,
    prevRem |-> NULL, threw |-> r.threw, localPre |-> EmptyBag, localPost |-> EmptyBag ]

TxnStart(c, m, durationMin) ==
  /\ last.n < MaxEvents
  /\ LET r == startMachineTransaction(store[m], currentUid(c), currentEmail(c), currentName(c),
                                      startFields(createBlankMachine(m), c, durationMin, now), now)
     IN /\ store' = IF r.commit THEN [store EXCEPT ![m] = r.value] ELSE store
        /\ last' = TxnOp("startTxn", c, m, r)
  /\ UNCHANGED <<cache, inbox, now, okReminder, completions, notifications>>
  /\ UNCHANGED extraVars

TxnFinish(c, m) ==
  /\ last.n < MaxEvents
  /\ LET r == finishMachineTransaction(store[m], currentUid(c), resetFields(createBlankMachine(m)))
     IN /\ store' = IF r.commit THEN [store EXCEPT ![m] = r.value] ELSE store
        /\ last' = TxnOp("finishTxn", c, m, r)
  /\ UNCHANGED <<cache, inbox, now, okReminder, completions, notifications>>
  /\ UNCHANGED extraVars

TxnNext ==
  \/ \E c \in Callers, m \in MACHINE_DEFINITIONS, d \in DURATIONS : TxnStart(c, m, d)
  \/ \E c \in Callers, m \in MACHINE_DEFINITIONS : TxnFinish(c, m)

SpecTxn == TxnInit /\ [][TxnNext]_vars

\* ----------------------------------------------------- seeding, write by write
\* The machines subscription with the seeding write in flight: the callback that
\* sees no data issues writeMachines(seed) and shows the seed at once; the write
\* reaches the store later, replacing the whole machines node of the room.
SeedDeliver(c) ==
  /\ c \notin pendingSeeds
  /\ IF RoomEmpty(store)
     THEN /\ pendingSeeds' = pendingSeeds \cup {c}
          /\ cache' = [cache EXCEPT ![c] = createInitialMachineMap]
     ELSE /\ cache' = [cache EXCEPT ![c] =
               [m \in MACHINE_DEFINITIONS |->
                  IF store[m] = NULL THEN NULL ELSE normalizeMachine(m, store[m])]]
          /\ UNCHANGED pendingSeeds
  /\ UNCHANGED <<store, inbox, now, last, okReminder, completions, notifications>>
  /\ UNCHANGED <<roomStore, currentRoomId, lastWrite, notifStore, delivered, lastSend>>
  /\ UNCHANGED moreVars

\* set(ref(database, `rooms/${roomId}/machines`), map) reaching the store
SeedWrite(c) ==
  /\ c \in pendingSeeds
  /\ pendingSeeds' = pendingSeeds \ {c}
  /\ store' = createInitialMachineMap
  /\ UNCHANGED <<cache, inbox, now, last, okReminder, completions, notifications>>
  /\ UNCHANGED <<roomStore, currentRoomId, lastWrite, notifStore, delivered, lastSend>>
  /\ UNCHANGED moreVars

\* a client's own writes reach the store in the order it issued them: it claims and
\* releases once its seeding write has landed
SeedStart(c, m, durationMin) == c \notin pendingSeeds /\ StartMachine(c, m, durationMin)

SeedFinish(c, m) == c \notin pendingSeeds /\ FinishMachine(c, m)

SeedNext ==
  \/ \E c \in Clients : SeedDeliver(c)
  \/ \E c \in Clients : SeedWrite(c)
  \/ \E c \in Clients, m \in MACHINE_DEFINITIONS, d \in DURATIONS : SeedStart(c, m, d)
  \/ \E c \in Clients, m \in MACHINE_DEFINITIONS : SeedFinish(c, m)

SpecSeed == Init /\ [][SeedNext]_vars

\* ------------------------------------------------------------------- rooms
\* The provider with several rooms: roomStore[r] is rooms/{r}/machines, cache[c] is
\* client c's machines list (of whichever room it was last delivered from), and
\* currentRoomId[c] is the room its actions and its machines subscription use.
\* The tick is created once, by an effect that is not re-run when the room changes,
\* so it keeps the room id of the first render.
tickRoomId(c) == DEFAULT_ROOM

\* a write of the provider of client c to the machines of room r
Write(c, r, op) == [c |-> c, target |-> r, active |-> currentRoomId[c], op |-> op]

RoomOp(name, c, m, ok) ==
  [last EXCEPT !.n = @ + 1, !.op = name, !.c = c, !.m = m, !.ok = ok, !.at = now]

RoomAdvance ==
  /\ Events < MaxEvents
  /\ \E c \in Clients, m \in MACHINE_DEFINITIONS : TimerRunning(cache[c][m], now)
  /\ now' = now + TimeStep
  /\ UNCHANGED <<store, cache, inbox, last, okReminder, completions, notifications>>
  /\ UNCHANGED extraVars

\* setCurrentRoom(r)
SetCurrentRoom(c, r) ==
  /\ CanOp(c)
  /\ r # currentRoomId[c]
  /\ currentRoomId' = [currentRoomId EXCEPT ![c] = r]
  /\ last' = RoomOp("room", c, last.m, TRUE)
  /\ UNCHANGED <<store, cache, inbox, now, okReminder, completions, notifications>>
  /\ UNCHANGED <<pendingSeeds, roomStore, lastWrite, notifStore, delivered, lastSend>>
  /\ UNCHANGED moreVars

\* the machines subscription of the current room delivers: seed an empty room, else
\* replace the list
RoomDeliver(c) ==
  LET r == currentRoomId[c]
  IN /\ IF RoomEmpty(roomStore[r])
        THEN /\ roomStore' = [roomStore EXCEPT ![r] = createInitialMachineMap]
             /\ lastWrite' = Write(c, r, "seed")
             /\ cache' = [cache EXCEPT ![c] = createInitialMachineMap]
        ELSE /\ cache' = [cache EXCEPT ![c] =
                  [m \in MACHINE_DEFINITIONS |->
                     IF roomStore[r][m] = NULL THEN NULL ELSE normalizeMachine(m, roomStore[r][m])]]
             /\ UNCHANGED <<roomStore, lastWrite>>
     /\ UNCHANGED <<store, inbox, now, last, okReminder, completions, notifications>>
     /\ UNCHANGED <<pendingSeeds, currentRoomId, notifStore, delivered, lastSend>>
     /\ UNCHANGED moreVars

RoomStart(c, m, durationMin) ==
  /\ CanOp(c)
  /\ cache[c][m] # NULL
  /\ LET room == currentRoomId[c]
         updated == startFields(cache[c][m], c, durationMin, now)
         r == startMachineTransaction(roomStore[room][m], currentUid(c), currentEmail(c),
                                      currentName(c), updated, now)
     IN /\ IF r.commit
           THEN /\ roomStore' = [roomStore EXCEPT ![room][m] = r.value]
                /\ cache' = [cache EXCEPT ![c][m] = normalizeMachine(m, r.value)]
                /\ lastWrite' = Write(c, room, "start")
           ELSE UNCHANGED <<roomStore, cache, lastWrite>>
        /\ last' = RoomOp("start", c, m, r.commit)
  /\ UNCHANGED <<store, inbox, now, okReminder, completions, notifications>>
  /\ UNCHANGED <<pendingSeeds, currentRoomId, notifStore, delivered, lastSend>>
  /\ UNCHANGED moreVars

RoomFinish(c, m) ==
  /\ CanOp(c)
  /\ cache[c][m] # NULL
  /\ LET room == currentRoomId[c]
         machine == cache[c][m]
         sent == pickupNotifications(machine, now)
         r == finishMachineTransaction(roomStore[room][m], currentUid(c), resetFields(machine))
     IN /\ inbox' = inbox (+) sent
        /\ notifications' = [notifications EXCEPT ![c] = @ (+) sent]
        /\ IF r.commit
           THEN /\ roomStore' = [roomStore EXCEPT ![room][m] = r.value]
                /\ cache' = [cache EXCEPT ![c][m] = normalizeMachine(m, r.value)]
                /\ lastWrite' = Write(c, room, "finish")
           ELSE UNCHANGED <<roomStore, cache, lastWrite>>
        /\ last' = RoomOp("finish", c, m, r.commit)
  /\ UNCHANGED <<store, now, okReminder, completions>>
  /\ UNCHANGED <<pendingSeeds, currentRoomId, notifStore, delivered, lastSend>>
  /\ UNCHANGED moreVars

RoomRemind(c, m) ==
  /\ CanOp(c)
  /\ cache[c][m] # NULL
  /\ reminderAccepted(cache[c][m], now)
  /\ LET room == currentRoomId[c]
         machine == cache[c][m]
         updated == reminderUpdated(machine, currentUid(c), now)
         sent == IF machine.ownerUid # NULL
                 THEN SetToBag({Notification(machine.ownerUid, "reminder", m, now)})
                 ELSE EmptyBag
     IN /\ inbox' = inbox (+) sent
        /\ notifications' = [notifications EXCEPT ![c] = @ (+) sent]
        /\ roomStore' = [roomStore EXCEPT ![room][m] = updated]
        /\ cache' = [cache EXCEPT ![c][m] = normalizeMachine(m, updated)]
        /\ lastWrite' = Write(c, room, "remind")
        /\ last' = RoomOp("remind", c, m, TRUE)
  /\ UNCHANGED <<store, now, okReminder, completions>>
  /\ UNCHANGED <<pendingSeeds, currentRoomId, notifStore, delivered, lastSend>>
  /\ UNCHANGED moreVars

\* the tick: the finished records of the list are written under the room id the
\* tick was created with (a tick that finds an elapsed machine counts as an event:
\* the list of another room can show the machine in use again and again)
RoomTick(c) ==
  /\ CanOp(c)
  /\ LET snapshot == cache[c]
         elapsed == {m \in MACHINE_DEFINITIONS : tickElapsed(snapshot[m], now)}
         notified == {m \in elapsed : tickNotifies(snapshot[m])}
         sent == SetToBag({Notification(snapshot[m].ownerUid, "completion", m, now) : m \in notified})
     IN /\ elapsed # {}
        /\ inbox' = inbox (+) sent
        /\ notifications' = [notifications EXCEPT ![c] = @ (+) sent]
        /\ cache' = [cache EXCEPT ![c] =
                       [m \in MACHINE_DEFINITIONS |->
                          IF m \in elapsed THEN tickUpdated(snapshot[m], now) ELSE snapshot[m]]]
        /\ roomStore' = [roomStore EXCEPT ![tickRoomId(c)] =
                           [m \in MACHINE_DEFINITIONS |->
                              IF m \in elapsed THEN tickUpdated(snapshot[m], now) ELSE @[m]]]
        /\ lastWrite' = Write(c, tickRoomId(c), "tick")
        /\ last' = RoomOp("tick", c, last.m, TRUE)
  /\ UNCHANGED <<store, now, okReminder, completions>>
  /\ UNCHANGED <<pendingSeeds, currentRoomId, notifStore, delivered, lastSend>>
  /\ UNCHANGED moreVars

RoomNext ==
  \/ RoomAdvance
  \/ \E c \in Clients, r \in Rooms : SetCurrentRoom(c, r)
  \/ \E c \in Clients : RoomDeliver(c)
  \/ \E c \in Clients, m \in MACHINE_DEFINITIONS, d \in DURATIONS : RoomStart(c, m, d)
  \/ \E c \in Clients, m \in MACHINE_DEFINITIONS : RoomFinish(c, m)
  \/ \E c \in Clients, m \in MACHINE_DEFINITIONS : RoomRemind(c, m)
  \/ \E c \in Clients : RoomTick(c)

SpecRooms == Init /\ [][RoomNext]_vars

\* ------------------------------------------------ rooms, with the tick running on
\* The same provider with its interval and its subscription never starved: the tick
\* fires whenever it has something to do, whatever number of user operations there
\* have been.  So that the tick can repeat for ever in finitely many states, a
\* notification already persisted for the same recipient, machine and time is not
\* counted a second time.
AddOnce(B, sent) == B (+) SetToBag({n \in BagToSet(sent) : ~BagIn(n, B)})

FairTick(c) ==
  /\ LET snapshot == cache[c]
         elapsed == {m \in MACHINE_DEFINITIONS : tickElapsed(snapshot[m], now)}
         notified == {m \in elapsed : tickNotifies(snapshot[m])}
         sent == SetToBag({Notification(snapshot[m].ownerUid, "completion", m, now) : m \in notified})
     IN /\ elapsed # {}
        /\ inbox' = AddOnce(inbox, sent)
        /\ notifications' = [notifications EXCEPT ![c] = AddOnce(@, sent)]
        /\ cache' = [cache EXCEPT ![c] =
                       [m \in MACHINE_DEFINITIONS |->
                          IF m \in elapsed THEN tickUpdated(snapshot[m], now) ELSE snapshot[m]]]
        /\ roomStore' = [roomStore EXCEPT ![tickRoomId(c)] =
                           [m \in MACHINE_DEFINITIONS |->
                              IF m \in elapsed THEN tickUpdated(snapshot[m], now) ELSE @[m]]]
        /\ lastWrite' = Write(c, tickRoomId(c), "tick")
  /\ UNCHANGED <<store, now, last, okReminder, completions>>
  /\ UNCHANGED <<pendingSeeds, currentRoomId, notifStore, delivered, lastSend>>
  /\ UNCHANGED moreVars

RoomFairNext ==
  \/ RoomAdvance
  \/ \E c \in Clients, r \in Rooms : SetCurrentRoom(c, r)
  \/ \E c \in Clients : RoomDeliver(c)
  \/ \E c \in Clients, m \in MACHINE_DEFINITIONS, d \in DURATIONS : RoomStart(c, m, d)
  \/ \E c \in Clients, m \in MACHINE_DEFINITIONS : RoomFinish(c, m)
  \/ \E c \in Clients : FairTick(c)

\* the interval keeps firing and the store keeps delivering to every provider
RoomFairness ==
  \A c \in Clients : WF_vars(FairTick(c)) /\ WF_vars(RoomDeliver(c))

SpecRoomsFair == Init /\ [][RoomFairNext]_vars /\ RoomFairness

\* ------------------------------------------------------- the e-mail keyed inbox
\* notifStore[k] is the list of the records under notifications/{k}, in key order
\* (push keys grow with the time of the push).
\* timestamps a caller passes (its own Date.now(), not ordered by arrival)
Timestamps == {10, 20}
\* the webhook: not configured, answering 2xx, answering an error status, unreachable
Hooks == {"unset", "ok", "rejected", "unreachable"}

\* (n.ts ?? 0)
tsKey(n) == Coalesce(Get(n, "ts"), <<0>>)[1]

RECURSIVE insertByTs_Ascending(_, _)
\* the comparator with its operands swapped: oldest first
insertByTs_Ascending(x, s) ==
  IF s = <<>> THEN <<x>>
  ELSE IF tsKey(Head(s)) <= tsKey(x) THEN <<Head(s)>> \o insertByTs_Ascending(x, Tail(s))
  ELSE <<x>> \o s

RECURSIVE insertByTs(_, _)
\* one step of the (stable) sort with comparator (a, b) => (b.ts ?? 0) - (a.ts ?? 0)
insertByTs(x, s) ==
  IF s = <<>> THEN <<x>>
  ELSE IF tsKey(Head(s)) >= tsKey(x) THEN <<Head(s)>> \o insertByTs(x, Tail(s))
  ELSE <<x>> \o s

RECURSIVE sortByTs(_)
\* Object.values(val).sort((a, b) => (b.ts ?? 0) - (a.ts ?? 0))
sortByTs(s) ==
  IF s = <<>> THEN <<>>
  ELSE insertByTs(s[Len(s)], sortByTs(SubSeq(s, 1, Len(s) - 1)))

\* the realtime adapter's sendNotification: push a record with ts = payload.timestamp
SendNotificationRealtime(e, ts) ==
  /\ lastSend.n < MaxEvents
  /\ LET id == lastSend.n + 1
         record == [id |-> <<id>>, recipientEmail |-> <<e>>, ts |-> <<ts>>, type |-> <<"reminder">>]
     IN /\ notifStore' = [notifStore EXCEPT ![encodeEmail(e)] = Append(@, record)]
        /\ lastSend' = [n |-> id, op |-> "realtime", to |-> <<e>>, hook |-> "unset",
                        id |-> <<id>>, threw |-> FALSE]
  /\ UNCHANGED delivered
  /\ UNCHANGED machineVars
  /\ UNCHANGED <<pendingSeeds, roomStore, currentRoomId, lastWrite>>
  /\ UNCHANGED moreVars

\* the listener of subscribeToNotificationsForEmail
subscribeToNotificationsForEmail(e) ==
  /\ delivered' = [delivered EXCEPT ![e] =
                      IF notifStore[encodeEmail(e)] = <<>> THEN <<>>
                      ELSE sortByTs(notifStore[encodeEmail(e)])]
  /\ delivered'[e] # delivered[e]
  /\ UNCHANGED <<notifStore, lastSend>>
  /\ UNCHANGED machineVars
  /\ UNCHANGED <<pendingSeeds, roomStore, currentRoomId, lastWrite>>
  /\ UNCHANGED moreVars

\* clearNotificationsForEmail(email) without ids: the whole inbox is removed
clearNotificationsForEmail(e) ==
  /\ notifStore[encodeEmail(e)] # <<>>
  /\ notifStore' = [notifStore EXCEPT ![encodeEmail(e)] = <<>>]
  /\ UNCHANGED <<delivered, lastSend>>
  /\ UNCHANGED machineVars
  /\ UNCHANGED <<pendingSeeds, roomStore, currentRoomId, lastWrite>>
  /\ UNCHANGED moreVars

\* fetch(webhookUrl, ...): rejects when the relay cannot be reached, resolves on any
\* HTTP status
fetchWebhook(hook) == IF hook = "unreachable" THEN "throws" ELSE "resolves"

\* the forwarding block with its try/catch removed
forwardToWebhook_NoCatch(hook) ==
  IF hook = "unset" THEN "skipped"
  ELSE IF fetchWebhook(hook) = "throws" THEN "throws"
  ELSE "forwarded"

\* if (webhookUrl) { try { await fetch(...) } catch (error) { console.error(...) } }
forwardToWebhook(hook) ==
  IF hook = "unset" THEN "skipped"
  ELSE IF fetchWebhook(hook) = "throws" THEN "logged"
  ELSE "forwarded"

\* the forwarding adapter's sendNotification: persist the record, then forward it
sendNotification(e, ts, hook) ==
  /\ lastSend.n < MaxEvents
  /\ LET id == lastSend.n + 1
         payload == [id |-> <<id>>, recipientEmail |-> <<e>>, timestamp |-> <<ts>>, type |-> <<"reminder">>]
         forward == forwardToWebhook(hook)
     IN /\ notifStore' = [notifStore EXCEPT ![btoa(e)] = Append(@, payload)]
        /\ lastSend' = [n |-> id, op |-> "forwarding", to |-> <<e>>, hook |-> hook,
                        id |-> IF forward = "throws" THEN NULL ELSE <<id>>,
                        threw |-> forward = "throws"]
  /\ UNCHANGED delivered
  /\ UNCHANGED machineVars
  /\ UNCHANGED <<pendingSeeds, roomStore, currentRoomId, lastWrite>>
  /\ UNCHANGED moreVars

NotifNext ==
  \/ \E e \in Recipients, ts \in Timestamps : SendNotificationRealtime(e, ts)
  \/ \E e \in Recipients : subscribeToNotificationsForEmail(e)
  \/ \E e \in Recipients : clearNotificationsForEmail(e)
  \/ \E hook \in Hooks : sendNotification("a@x", 20, hook)

SpecNotif == Init /\ [][NotifNext]_vars

\* -------------------------------------------------------- the tick, await by await
\* One firing of the interval runs tick(): it returns at once when processingRef is
\* set; else it sets it, takes machinesRef.current as its snapshot, and for every
\* elapsed machine of the snapshot awaits the completion notification (when one is
\* due) and issues the write of the finished record; after the loop it replaces the
\* local list, awaits the writes, and clears processingRef in its finally block.
\* tickRuns[c] holds one record per execution that is between its first and its last
\* await.

\* user operations, clock advances and firings of the interval share one budget
TickBudget == Events + lastTick.n < MaxEvents

\* the guard never refusing
tickBusy_Never(c) == FALSE

\* if (processingRef.current) return;
tickBusy(c) == processingRef[c]

\* the finished records of a run's snapshot, as the tick builds updatedMachines
tickUpdatedMachines(run) ==
  [m \in MACHINE_DEFINITIONS |->
     IF tickElapsed(run.snapshot[m], run.t) THEN tickUpdated(run.snapshot[m], run.t)
     ELSE run.snapshot[m]]

tickElapsedSet(run) == {m \in MACHINE_DEFINITIONS : tickElapsed(run.snapshot[m], run.t)}

\* the finally block clearing the guard only when no write failed
tickFinally_OnSuccessOnly(c, failed) ==
  IF failed = {} THEN [processingRef EXCEPT ![c] = FALSE] ELSE processingRef

\* finally { processingRef.current = false; }
tickFinally(c, failed) == [processingRef EXCEPT ![c] = FALSE]

\* a firing of the interval of client c's provider: refused by the guard, or
\* finding nothing elapsed (no await: guard set and cleared in one step), or
\* beginning an execution
TickFire(c) ==
  /\ TickBudget
  /\ IF tickBusy(c)
     THEN /\ lastTick' = [n |-> lastTick.n + 1, c |-> c, kind |-> "skipped",
                          snapshot |-> NULL, failed |-> {}]
          /\ UNCHANGED <<cache, processingRef, tickRuns>>
     ELSE LET run == [t |-> now, snapshot |-> cache[c],
                      toSend |-> {m \in MACHINE_DEFINITIONS :
                                    tickElapsed(cache[c][m], now) /\ tickNotifies(cache[c][m])}]
          IN IF tickElapsedSet(run) = {}
             THEN /\ processingRef' = tickFinally(c, {})
                  /\ lastTick' = [n |-> lastTick.n + 1, c |-> c, kind |-> "idle",
                                  snapshot |-> cache[c], failed |-> {}]
                  /\ UNCHANGED <<cache, tickRuns>>
             ELSE /\ processingRef' = [processingRef EXCEPT ![c] = TRUE]
                  /\ tickRuns' = [tickRuns EXCEPT ![c] = Append(@, run)]
                  /\ cache' = IF run.toSend = {}
                              THEN [cache EXCEPT ![c] = tickUpdatedMachines(run)]
                              ELSE cache
                  /\ lastTick' = [n |-> lastTick.n + 1, c |-> c, kind |-> "began",
                                  snapshot |-> cache[c], failed |-> {}]
  /\ UNCHANGED <<store, inbox, now, last, okReminder, completions, notifications>>
  /\ UNCHANGED <<pendingSeeds, roomStore, currentRoomId, lastWrite, notifStore, delivered, lastSend>>
  /\ UNCHANGED subVars
  /\ UNCHANGED <<normVars, initVars, lateVars>>

\* the awaited sendNotificationToUid of run i resolves (ok) or rejects; after the
\* last one the loop ends and the local list is replaced by updatedMachines
TickSent(c, i, ok) ==
  /\ i \in DOMAIN tickRuns[c]
  /\ tickRuns[c][i].toSend # {}
  /\ LET run == tickRuns[c][i]
         m == CHOOSE x \in run.toSend : \A y \in run.toSend : x <= y
         sent == IF ok THEN SetToBag({Notification(run.snapshot[m].ownerUid, "completion", m, run.t)})
                 ELSE EmptyBag
         rest == run.toSend \ {m}
     IN /\ inbox' = inbox (+) sent
        /\ notifications' = [notifications EXCEPT ![c] = @ (+) sent]
        /\ completions' = [completions EXCEPT ![m] = IF ok THEN @ + 1 ELSE @]
        /\ tickRuns' = [tickRuns EXCEPT ![c][i].toSend = rest]
        /\ cache' = IF rest = {} THEN [cache EXCEPT ![c] = tickUpdatedMachines(run)] ELSE cache
  /\ UNCHANGED <<store, now, last, okReminder, processingRef, lastTick>>
  /\ UNCHANGED <<pendingSeeds, roomStore, currentRoomId, lastWrite, notifStore, delivered, lastSend>>
  /\ UNCHANGED subVars
  /\ UNCHANGED <<normVars, initVars, lateVars>>

\* await Promise.all(writes) of run i settles: the writes of `landed` reached the
\* store, the others were rejected; the finally block clears processingRef
TickWritten(c, i, landed) ==
  /\ i \in DOMAIN tickRuns[c]
  /\ tickRuns[c][i].toSend = {}
  /\ landed \subseteq tickElapsedSet(tickRuns[c][i])
  /\ LET run == tickRuns[c][i]
     IN /\ store' = [m \in MACHINE_DEFINITIONS |->
                       IF m \in landed THEN tickUpdatedMachines(run)[m] ELSE store[m]]
        /\ tickRuns' = [tickRuns EXCEPT ![c] =
                          SubSeq(@, 1, i - 1) \o SubSeq(@, i + 1, Len(@))]
        /\ processingRef' = tickFinally(c, tickElapsedSet(run) \ landed)
        /\ lastTick' = [n |-> lastTick.n, c |-> c, kind |-> "returned",
                        snapshot |-> run.snapshot, failed |-> tickElapsedSet(run) \ landed]
  /\ UNCHANGED <<cache, inbox, now, last, okReminder, completions, notifications>>
  /\ UNCHANGED <<pendingSeeds, roomStore, currentRoomId, lastWrite, notifStore, delivered, lastSend>>
  /\ UNCHANGED subVars
  /\ UNCHANGED <<normVars, initVars, lateVars>>

TickAdvance == TickBudget /\ Advance

TickStart(c, m, durationMin) == TickBudget /\ StartMachine(c, m, durationMin)

TickNext ==
  \/ TickAdvance
  \/ \E c \in Clients : Sync(c)
  \/ \E c \in Clients, m \in MACHINE_DEFINITIONS, d \in DURATIONS : TickStart(c, m, d)
  \/ \E c \in Clients : TickFire(c)
  \/ \E c \in Clients, i \in 1 .. 2, ok \in BOOLEAN : TickSent(c, i, ok)
  \/ \E c \in Clients, i \in 1 .. 2, landed \in SUBSET MACHINE_DEFINITIONS : TickWritten(c, i, landed)

SpecTick == Init /\ [][TickNext]_vars

\* ------------------------------------------------------ the subscription effects
\* Each run of the machines subscription effect has its own `active` flag and its own
\* `unsubscribe`.  setup() awaits initFirebase(), returns when the run was cleaned up
\* meanwhile, and else registers the listener of the run's room.  A run that can no
\* longer act (cleaned up before it subscribed and resumed, or unsubscribed) is
\* dropped from effects[c].
\* the rooms that exist under rooms/
ExistingRooms == {r \in SubRooms : ~RoomEmpty(roomStore[r])}

\* the cleanup that clears the flag and leaves the listener registered
effectCleanup_NoUnsubscribe(e) == {[e EXCEPT !.active = FALSE]}

\* return () => { active = false; if (unsubscribe) unsubscribe(); }: what is left of
\* the run
effectCleanup(e) ==
  IF e.stage = "subscribed" THEN {} ELSE {[e EXCEPT !.active = FALSE]}

\* a change of currentRoomId to r: React cleans up the runs of the previous render
\* and runs the effect for r
effectsOnRoomChange(es, r) ==
  UNION {IF e.active THEN effectCleanup(e) ELSE {e} : e \in es}
    \cup {[room |-> r, active |-> TRUE, stage |-> "awaiting"]}

\* await initFirebase() of a machines run resumes
SubMachinesSetup(c, e) ==
  /\ e \in effects[c]
  /\ e.stage = "awaiting"
  /\ effects' = [effects EXCEPT ![c] =
                   IF e.active THEN (@ \ {e}) \cup {[e EXCEPT !.stage = "subscribed"]}
                   ELSE @ \ {e}]
  /\ UNCHANGED <<mounted, roomsEffect, rooms, selectedRoom>>
  /\ UNCHANGED machineVars
  /\ UNCHANGED <<pendingSeeds, roomStore, currentRoomId, lastWrite, notifStore, delivered, lastSend>>
  /\ UNCHANGED tickVars
  /\ UNCHANGED <<normVars, initVars, lateVars>>

\* await initFirebase() of the rooms run resumes
SubRoomsSetup(c) ==
  /\ roomsEffect[c].stage = "awaiting"
  /\ roomsEffect' = [roomsEffect EXCEPT ![c].stage =
                       IF roomsEffect[c].active THEN "subscribed" ELSE "returned"]
  /\ UNCHANGED <<mounted, effects, rooms, selectedRoom>>
  /\ UNCHANGED machineVars
  /\ UNCHANGED <<pendingSeeds, roomStore, currentRoomId, lastWrite, notifStore, delivered, lastSend>>
  /\ UNCHANGED tickVars
  /\ UNCHANGED <<normVars, initVars, lateVars>>

\* setCurrentRoom(r) by the user, from the selector's options (the rooms list) or not
SubSetRoom(c, r) ==
  /\ CanOp(c)
  /\ mounted[c]
  /\ r # currentRoomId[c]
  /\ currentRoomId' = [currentRoomId EXCEPT ![c] = r]
  /\ effects' = [effects EXCEPT ![c] = effectsOnRoomChange(@, r)]
  /\ last' = RoomOp("room", c, last.m, TRUE)
  /\ selectedRoom' = [selectedRoom EXCEPT ![c] = IF r \in rooms[c] THEN <<r>> ELSE NULL]
  /\ UNCHANGED <<mounted, roomsEffect, rooms>>
  /\ UNCHANGED <<store, cache, inbox, now, okReminder, completions, notifications>>
  /\ UNCHANGED <<pendingSeeds, roomStore, lastWrite, notifStore, delivered, lastSend>>
  /\ UNCHANGED tickVars
  /\ UNCHANGED <<normVars, initVars, lateVars>>

\* the provider is unmounted: the cleanup of every effect runs
SubUnmount(c) ==
  /\ CanOp(c)
  /\ mounted[c]
  /\ mounted' = [mounted EXCEPT ![c] = FALSE]
  /\ last' = RoomOp("unmount", c, last.m, TRUE)
  /\ effects' = [effects EXCEPT ![c] = UNION {IF e.active THEN effectCleanup(e) ELSE {e} : e \in @}]
  /\ roomsEffect' = [roomsEffect EXCEPT ![c].active = FALSE,
                                         ![c].stage = IF @ = "subscribed" THEN "unsubscribed" ELSE @]
  /\ UNCHANGED <<rooms, selectedRoom>>
  /\ UNCHANGED <<store, cache, inbox, now, okReminder, completions, notifications>>
  /\ UNCHANGED <<pendingSeeds, roomStore, currentRoomId, lastWrite, notifStore, delivered, lastSend>>
  /\ UNCHANGED tickVars
  /\ UNCHANGED <<normVars, initVars, lateVars>>

\* the store calls the listener a machines run registered, with the machines of the
\* run's room
SubDeliver(c, e) ==
  /\ e \in effects[c]
  /\ e.stage = "subscribed"
  /\ IF RoomEmpty(roomStore[e.room])
     THEN /\ roomStore' = [roomStore EXCEPT ![e.room] = createInitialMachineMap]
          /\ lastWrite' = Write(c, e.room, "seed")
          /\ cache' = [cache EXCEPT ![c] = createInitialMachineMap]
     ELSE /\ cache' = [cache EXCEPT ![c] =
               [m \in MACHINE_DEFINITIONS |->
                  IF roomStore[e.room][m] = NULL THEN NULL
                  ELSE normalizeMachine(m, roomStore[e.room][m])]]
          /\ UNCHANGED <<roomStore, lastWrite>>
  /\ UNCHANGED <<store, inbox, now, last, okReminder, completions, notifications>>
  /\ UNCHANGED <<pendingSeeds, currentRoomId, notifStore, delivered, lastSend>>
  /\ UNCHANGED tickVars
  /\ UNCHANGED subVars
  /\ UNCHANGED <<normVars, initVars, lateVars>>

\* the store calls the rooms listener with a snapshot of rooms/ it has not handed over
\* yet (seen): the list is replaced, and when the room the provider was created with
\* is not in it the first room of the list is selected
SubRoomsDeliver(c) ==
  /\ roomsEffect[c].stage = "subscribed"
  /\ roomsEffect[c].seen # <<roomStore>>
  /\ roomsEffect' = [roomsEffect EXCEPT ![c].seen = <<roomStore>>]
  /\ rooms' = [rooms EXCEPT ![c] = ExistingRooms]
  /\ LET first == RoomKeyOrder[CHOOSE i \in DOMAIN RoomKeyOrder :
                                 /\ RoomKeyOrder[i] \in ExistingRooms
                                 /\ \A j \in 1 .. (i - 1) : RoomKeyOrder[j] \notin ExistingRooms]
         select == ExistingRooms # {} /\ DEFAULT_ROOM \notin ExistingRooms
                     /\ first # currentRoomId[c]
     IN IF select
        THEN /\ CanOp(c)
             /\ currentRoomId' = [currentRoomId EXCEPT ![c] = first]
             /\ effects' = [effects EXCEPT ![c] = effectsOnRoomChange(@, first)]
             /\ last' = RoomOp("select", c, last.m, TRUE)
             /\ selectedRoom' = [selectedRoom EXCEPT ![c] = NULL]
        ELSE UNCHANGED <<currentRoomId, effects, last, selectedRoom>>
  /\ UNCHANGED mounted
  /\ UNCHANGED <<store, cache, inbox, now, okReminder, completions, notifications>>
  /\ UNCHANGED <<pendingSeeds, roomStore, lastWrite, notifStore, delivered, lastSend>>
  /\ UNCHANGED tickVars
  /\ UNCHANGED <<normVars, initVars, lateVars>>

\* startMachine of a mounted provider, in its current room
SubStart(c, m, durationMin) == mounted[c] /\ RoomStart(c, m, durationMin)

\* the provider whose effects are followed; the other client only claims machines
SubProviders == {"c1"}

SubNext ==
  \/ \E c \in SubProviders : \E e \in effects[c] : SubMachinesSetup(c, e)
  \/ \E c \in SubProviders : SubRoomsSetup(c)
  \/ \E c \in SubProviders, r \in SubRooms : SubSetRoom(c, r)
  \/ \E c \in SubProviders : SubUnmount(c)
  \/ \E c \in SubProviders : \E e \in effects[c] : SubDeliver(c, e)
  \/ \E c \in SubProviders : SubRoomsDeliver(c)
  \/ \E c \in Clients, m \in MACHINE_DEFINITIONS, d \in DURATIONS : SubStart(c, m, d)

\* the provider mounts on a database where other users have created the rooms r2 and
\* r3 and nobody the default room
SubInit ==
  /\ store = [m \in MACHINE_DEFINITIONS |-> NULL]
  /\ cache = [c \in Clients |-> INITIAL_MACHINE_MAP]
  /\ inbox = EmptyBag
  /\ now = TimeStep
  /\ last = [n |-> 0, op |-> "none", c |-> "c1", m |-> 1, ok |-> FALSE, at |-> 0,
             pre |-> NULL, post |-> NULL, loc |-> NULL, sent |-> EmptyBag, prevRem |-> NULL,
             threw |-> FALSE, localPre |-> EmptyBag, localPost |-> EmptyBag]
  /\ okReminder = [m \in MACHINE_DEFINITIONS |-> NULL]
  /\ completions = [m \in MACHINE_DEFINITIONS |-> 0]
  /\ notifications = [c \in Clients |-> EmptyBag]
  /\ ExtraInit
  /\ roomStore = [r \in SubRooms |-> IF r = DEFAULT_ROOM
                                      THEN [m \in MACHINE_DEFINITIONS |-> NULL]
                                      ELSE createInitialMachineMap]
  /\ mockStore = MOCK_MACHINES
  /\ ReadyInit
  /\ raw = [id |-> 1, value |-> NULL]
  /\ norm = NULL

SpecSubs == SubInit /\ [][SubNext]_vars

\* ------------------------------------------------------- one read of one record
\* normalizeMachine applied to one stored value: a record as a committed start
\* wrote it, the same record finished by a tick or shifted by a skip-forward, and
\* the records of writers that store no expectedFinishTime (the key missing or
\* null), no durationMin or no startTime.
NormTimes == {k * TimeStep : k \in 1 .. MaxEvents}
NormDurations == {1, DEFAULT_DURATION_MIN}

\* the record a committed start of client c stores for machine m
WrittenByStart(c, m, d, t) ==
  startMachineUpdate(createBlankMachine(m), currentUid(c), currentEmail(c), currentName(c),
                     startFields(createBlankMachine(m), c, d, t), t).value

\* a stored object without one of its keys
WithoutKey(r, key) == [k \in DOMAIN r \ {key} |-> r[k]]

RawValues(m) ==
  UNION { LET w == WrittenByStart(c, m, d, t)
          IN { w,
               tickUpdated(w, t + d * MS_PER_MIN),
               skipUpdated(w, SKIP_TARGET_MS),
               WithoutKey(w, "expectedFinishTime"),
               [w EXCEPT !.expectedFinishTime = NULL],
               [w EXCEPT !.expectedFinishTime = NULL, !.durationMin = NULL],
               WithoutKey(WithoutKey(w, "expectedFinishTime"), "startTime") }
          : c \in Clients, d \in NormDurations, t \in NormTimes }
    \cup {createBlankMachine(m), NULL}

NormInit ==
  /\ store = [m \in MACHINE_DEFINITIONS |-> NULL]
  /\ cache = [c \in Clients |-> INITIAL_MACHINE_MAP]
  /\ inbox = EmptyBag
  /\ now = TimeStep
  /\ last = [n |-> 0, op |-> "none", c |-> "c1", m |-> 1, ok |-> FALSE, at |-> 0,
             pre |-> NULL, post |-> NULL, loc |-> NULL, sent |-> EmptyBag, prevRem |-> NULL,
             threw |-> FALSE, localPre |-> EmptyBag, localPost |-> EmptyBag]
  /\ okReminder = [m \in MACHINE_DEFINITIONS |-> NULL]
  /\ completions = [m \in MACHINE_DEFINITIONS |-> 0]
  /\ notifications = [c \in Clients |-> EmptyBag]
  /\ ExtraInit
  /\ RoomsInit
  /\ mockStore = MOCK_MACHINES
  /\ ReadyInit
  /\ \E m \in MACHINE_DEFINITIONS : \E v \in RawValues(m) : raw = [id |-> m, value |-> v]
  /\ norm = NULL

\* Object.entries(data).map(([machineId, value]) => normalizeMachine(machineId, value || {}))
NormalizeRead ==
  /\ norm = NULL
  /\ norm' = normalizeMachine(raw.id, raw.value)
  /\ UNCHANGED raw
  /\ UNCHANGED machineVars
  /\ UNCHANGED <<pendingSeeds, roomStore, currentRoomId, lastWrite, notifStore, delivered, lastSend>>
  /\ UNCHANGED <<tickVars, subVars, initVars, lateVars>>

NormNext == NormalizeRead

SpecNorm == NormInit /\ [][NormNext]_vars

\* ------------------------------------------------- store not initialized
\* The adapter module's db is null until initFirebase() has set it. db[c] is the
\* module variable of the page of client c, setup[c] the stage of the provider's
\* machines subscription setup, lastCall the last call made and how it ended.
AdapterOps ==
  { "subscribeToMachines", "subscribeToMachinesForRoom", "subscribeToRooms",
    "writeMachine", "writeMachines", "fetchMachinesForRoom",
    "startMachineTransaction", "finishMachineTransaction",
    "subscribeToNotificationsByUid", "markNotificationSeenByUid",
    "sendNotificationToUid" }

\* ensureDb(): throws 'Realtime DB not initialized - call initFirebase() first'
ensureDb(c) == IF db[c] THEN "ok" ELSE "throws"

\* how an adapter operation ends when it is called on the page of client c
adapterOutcome(c, op) ==
  IF op = "sendNotificationToUid"
  THEN (IF db[c] THEN "ok" ELSE "mock id")
  ELSE ensureDb(c)

InitCall(c, op, outcome) ==
  [n |-> lastCall.n + 1, c |-> c, op |-> op, outcome |-> outcome]

UninitInit ==
  /\ store = [m \in MACHINE_DEFINITIONS |-> NULL]
  /\ cache = [c \in Clients |-> INITIAL_MACHINE_MAP]
  /\ inbox = EmptyBag
  /\ now = TimeStep
  /\ last = [n |-> 0, op |-> "none", c |-> "c1", m |-> 1, ok |-> FALSE, at |-> 0,
             pre |-> NULL, post |-> NULL, loc |-> NULL, sent |-> EmptyBag, prevRem |-> NULL,
             threw |-> FALSE, localPre |-> EmptyBag, localPost |-> EmptyBag]
  /\ okReminder = [m \in MACHINE_DEFINITIONS |-> NULL]
  /\ completions = [m \in MACHINE_DEFINITIONS |-> 0]
  /\ notifications = [c \in Clients |-> EmptyBag]
  /\ ExtraInit
  /\ RoomsInit
  /\ mockStore = MOCK_MACHINES
  /\ db = [c \in Clients |-> FALSE]
  /\ setup = [c \in Clients |-> "pending"]
  /\ raw = [id |-> 1, value |-> NULL]
  /\ norm = NULL

InitFrame ==
  /\ UNCHANGED <<store, inbox, now, last, okReminder, completions, notifications>>
  /\ UNCHANGED <<pendingSeeds, roomStore, currentRoomId, lastWrite, notifStore, delivered, lastSend>>
  /\ UNCHANGED <<tickVars, subVars, normVars, lateVars>>

\* initFirebase(): returns the db when it is set; otherwise initializeApp and
\* getDatabase either set it or throw (ok = FALSE: no usable configuration)
InitFirebase(c, ok) ==
  /\ lastCall.n < MaxEvents
  /\ db' = [db EXCEPT ![c] = @ \/ ok]
  /\ lastCall' = InitCall(c, "initFirebase", IF db[c] \/ ok THEN "ok" ELSE "throws")
  /\ UNCHANGED <<cache, setup>>
  /\ InitFrame

\* an exported adapter operation called while db is null
CallBeforeInit(c, op) ==
  /\ lastCall.n < MaxEvents
  /\ ~db[c]
  /\ lastCall' = InitCall(c, op, adapterOutcome(c, op))
  /\ UNCHANGED <<cache, db, setup>>
  /\ InitFrame

\* the provider's machines effect: await initFirebase(), then subscribe; the catch
\* installs INITIAL_MACHINES as the machine list
ProviderSetup(c, ok) ==
  /\ lastCall.n < MaxEvents
  /\ setup[c] = "pending"
  /\ LET inited == db[c] \/ ok
     IN /\ db' = [db EXCEPT ![c] = inited]
        /\ setup' = [setup EXCEPT ![c] = IF inited THEN "subscribed" ELSE "failed"]
        /\ cache' = IF inited THEN cache ELSE [cache EXCEPT ![c] = INITIAL_MACHINE_MAP]
        /\ lastCall' = InitCall(c, "setup", IF inited THEN "ok" ELSE "fallback list")
  /\ InitFrame

\* startMachine after a failed setup: the machine is found in the fallback list,
\* startMachineTransaction throws in ensureDb, the catch logs it and the call
\* returns normally
ProviderStart(c, m) ==
  /\ lastCall.n < MaxEvents
  /\ setup[c] = "failed"
  /\ m \in DOMAIN cache[c]
  /\ lastCall' = InitCall(c, "startMachine",
                          IF adapterOutcome(c, "startMachineTransaction") = "throws"
                          THEN "logged" ELSE "ok")
  /\ UNCHANGED <<cache, db, setup>>
  /\ InitFrame

InitNext ==
  \/ \E c \in Clients, ok \in BOOLEAN : InitFirebase(c, ok)
  \/ \E c \in Clients, op \in AdapterOps : CallBeforeInit(c, op)
  \/ \E c \in Clients, ok \in BOOLEAN : ProviderSetup(c, ok)
  \/ \E c \in Clients, m \in MACHINE_DEFINITIONS : ProviderStart(c, m)

SpecInit == UninitInit /\ [][InitNext]_vars

\* ------------------------------------------------- the in-memory mock store
\* The mock's transactions, run on the same stored record and with the same
\* arguments as the live ones: store is the live node, mockStore the mock's.

\* mock startMachineTransaction: false on an in-use record, else { ...current, ...updatedFields }
mockStartMachineTransaction(current, updatedFields) ==
  IF current # NULL /\ Get(current, "state") = "in-use" THEN Abort
  ELSE Commit(Spread(current, updatedFields))

\* mock finishMachineTransaction: false on a missing record, else { ...current, ...resetFields }
mockFinishMachineTransaction(current, resetFlds) ==
  IF current = NULL THEN Abort
  ELSE Commit(Spread(current, resetFlds))

MockInit ==
  /\ store \in [MACHINE_DEFINITIONS -> UNION {TxnRecords(m) : m \in MACHINE_DEFINITIONS}]
  /\ \A m \in MACHINE_DEFINITIONS : store[m] \in TxnRecords(m)
  /\ mockStore = store
  /\ cache = [c \in Clients |-> INITIAL_MACHINE_MAP]
  /\ inbox = EmptyBag
  /\ now = TimeStep
  /\ last = [n |-> 0, op |-> "none", c |-> "c1", m |-> 1, ok |-> FALSE, at |-> 0,
             pre |-> NULL, post |-> NULL, loc |-> NULL, sent |-> EmptyBag, prevRem |-> NULL,
             threw |-> FALSE, localPre |-> EmptyBag, localPost |-> EmptyBag]
  /\ okReminder = [m \in MACHINE_DEFINITIONS |-> NULL]
  /\ completions = [m \in MACHINE_DEFINITIONS |-> 0]
  /\ notifications = [c \in Clients |-> EmptyBag]
  /\ ExtraInit
  /\ RoomsInit
  /\ ReadyInit
  /\ raw = [id |-> 1, value |-> NULL]
  /\ norm = NULL

MockFrame ==
  /\ UNCHANGED <<cache, inbox, now, last, okReminder, completions, notifications>>
  /\ UNCHANGED <<pendingSeeds, roomStore, currentRoomId, lastWrite, notifStore, delivered, lastSend>>
  /\ UNCHANGED <<tickVars, subVars, normVars, initVars, pickupVars>>

MockCall(name, c, m, live, mock) ==
  [ n |-> lastMock.n + 1, c |-> c, op |-> name, m |-> m, same |-> store[m] = mockStore[m],
    live |-> live.commit, mock |-> mock.commit ]

\* one start issued by caller c with the same arguments on both stores
MockStart(c, m, durationMin) ==
  /\ lastMock.n < MaxEvents
  /\ LET updated == startFields(createBlankMachine(m), c, durationMin, now)
         live == startMachineTransaction(store[m], currentUid(c), currentEmail(c),
                                         currentName(c), updated, now)
         mock == mockStartMachineTransaction(mockStore[m], updated)
     IN /\ store' = IF live.commit THEN [store EXCEPT ![m] = live.value] ELSE store
        /\ mockStore' = IF mock.commit THEN [mockStore EXCEPT ![m] = mock.value] ELSE mockStore
        /\ lastMock' = MockCall("start", c, m, live, mock)
  /\ MockFrame

\* one release issued by caller c with the same arguments on both stores
MockFinish(c, m) ==
  /\ lastMock.n < MaxEvents
  /\ LET reset == resetFields(createBlankMachine(m))
         live == finishMachineTransaction(store[m], currentUid(c), reset)
         mock == mockFinishMachineTransaction(mockStore[m], reset)
     IN /\ store' = IF live.commit THEN [store EXCEPT ![m] = live.value] ELSE store
        /\ mockStore' = IF mock.commit THEN [mockStore EXCEPT ![m] = mock.value] ELSE mockStore
        /\ lastMock' = MockCall("finish", c, m, live, mock)
  /\ MockFrame

MockNext ==
  \/ \E c \in Callers, m \in MACHINE_DEFINITIONS, d \in DURATIONS : MockStart(c, m, d)
  \/ \E c \in Callers, m \in MACHINE_DEFINITIONS : MockFinish(c, m)

SpecMock == MockInit /\ [][MockNext]_vars

\* ------------------------------------- the provider with the auto-pickup
\* The e-mail keyed QueueProvider: one global machine list, every write a plain
\* writeMachine of the record the caller built from its list, and a timeout set by
\* sendReminder that releases the machine.  `store` is machines/, `cache[c]` the
\* provider's `machines`, `inbox` the notifications sent, keyed by e-mail.
AUTO_PICKUP_MS == 15000

createBlankMachineEmail(id) ==
  [ id |-> id,
    state |-> "available",
    ownerEmail |-> NULL,
    ownerName |-> NULL,
    startTime |-> NULL,
    durationMin |-> NULL,
    expectedFinishTime |-> NULL,
    completedAt |-> NULL,
    completionNotifiedAt |-> NULL,
    lastReminderSent |-> NULL,
    reminderCount |-> <<0>>,
    reminderSubscribers |-> {} ]

normalizeMachineEmail(id, value) ==
  LET base == createBlankMachineEmail(id)
      ownerEmail == Coalesce(Get(value, "ownerEmail"), Coalesce(Get(value, "ownerId"), base.ownerEmail))
      startTime == Coalesce(Get(value, "startTime"), base.startTime)
      durationMin == Coalesce(Get(value, "durationMin"), base.durationMin)
      eft0 == Coalesce(Get(value, "expectedFinishTime"), base.expectedFinishTime)
      expectedFinishTime ==
        IF eft0 = NULL /\ startTime # NULL /\ Truthy(durationMin)
        THEN toISOString(DateParse(startTime) + durationMin[1] * MS_PER_MIN)
        ELSE eft0
  IN Spread(Spread(base, value),
       [ id |-> id,
         ownerEmail |-> ownerEmail,
         ownerName |-> Coalesce(Get(value, "ownerName"), ownerEmail),
         startTime |-> startTime,
         durationMin |-> durationMin,
         expectedFinishTime |-> expectedFinishTime,
         reminderSubscribers |->
           IF "reminderSubscribers" \in DOMAIN value THEN value.reminderSubscribers
           ELSE base.reminderSubscribers,
         reminderCount |-> Coalesce(Get(value, "reminderCount"), base.reminderCount),
         lastReminderSent |-> Coalesce(Get(value, "lastReminderSent"), base.lastReminderSent) ])

\* what startMachine writes
startMachineEmail(machine, userEmail, ownerName, durationMin, t) ==
  Spread(machine,
    [ state |-> "in-use",
      ownerEmail |-> userEmail,
      ownerName |-> Coalesce(ownerName, userEmail),
      startTime |-> toISOString(t),
      durationMin |-> <<durationMin>>,
      expectedFinishTime |-> toISOString(t + durationMin * MS_PER_MIN),
      completedAt |-> NULL,
      completionNotifiedAt |-> NULL,
      lastReminderSent |-> NULL,
      reminderCount |-> <<0>>,
      reminderSubscribers |-> {} ])

\* the pickup notifications finishMachine sends and the record it writes
finishMachineEmail(machine, t) ==
  [ sent |-> SetToBag({Notification(<<e>>, "pickup", machine.id, t) :
                         e \in {x \in machine.reminderSubscribers : <<x>> # machine.ownerEmail}}),
    reset |-> Spread(machine,
      [ state |-> "available",
        ownerEmail |-> NULL,
        ownerName |-> NULL,
        startTime |-> NULL,
        durationMin |-> NULL,
        expectedFinishTime |-> NULL,
        completedAt |-> NULL,
        completionNotifiedAt |-> NULL,
        lastReminderSent |-> NULL,
        reminderCount |-> <<0>>,
        reminderSubscribers |-> {} ]) ]

\* whether sendReminder goes past its early returns
sendReminderAccepted(machine, fromEmail, t) ==
  /\ machine.ownerEmail # NULL
  /\ machine.ownerEmail # fromEmail
  /\ \/ machine.state = "finished"
     \/ machine.expectedFinishTime # NULL /\ t >= DateParse(machine.expectedFinishTime)
  /\ ~(Truthy(machine.lastReminderSent) /\ t - machine.lastReminderSent[1] < REMINDER_THROTTLE_MS)

\* the record sendReminder writes
sendReminderUpdated(machine, fromEmail, t) ==
  Spread(machine,
    [ lastReminderSent |-> <<t>>,
      reminderCount |-> <<Coalesce(machine.reminderCount, <<0>>)[1] + 1>>,
      reminderSubscribers |-> machine.reminderSubscribers \cup {fromEmail[1]} ])

\* stored records the provider can find when it mounts: a free machine, or a cycle
\* started by some user one minute before the first instant looked at
PickupRecords(m) ==
  {createBlankMachineEmail(m)} \cup
  {startMachineEmail(createBlankMachineEmail(m), currentEmail(c), currentName(c), 1, 0) : c \in Clients}

PickupInit ==
  /\ store \in [MACHINE_DEFINITIONS -> UNION {PickupRecords(m) : m \in MACHINE_DEFINITIONS}]
  /\ \A m \in MACHINE_DEFINITIONS : store[m] \in PickupRecords(m)
  /\ cache = [c \in Clients |-> [m \in MACHINE_DEFINITIONS |-> createBlankMachineEmail(m)]]
  /\ inbox = EmptyBag
  /\ now = TimeStep
  /\ last = [n |-> 0, op |-> "none", c |-> "c1", m |-> 1, ok |-> FALSE, at |-> 0,
             pre |-> NULL, post |-> NULL, loc |-> NULL, sent |-> EmptyBag, prevRem |-> NULL,
             threw |-> FALSE, localPre |-> EmptyBag, localPost |-> EmptyBag]
  /\ okReminder = [m \in MACHINE_DEFINITIONS |-> NULL]
  /\ completions = [m \in MACHINE_DEFINITIONS |-> 0]
  /\ notifications = [c \in Clients |-> EmptyBag]
  /\ ExtraInit
  /\ RoomsInit
  /\ mockStore = MOCK_MACHINES
  /\ ReadyInit
  /\ raw = [id |-> 1, value |-> NULL]
  /\ norm = NULL

PickupFrame ==
  /\ UNCHANGED <<last, okReminder, completions>>
  /\ UNCHANGED <<pendingSeeds, roomStore, currentRoomId, lastWrite, notifStore, delivered, lastSend>>
  /\ UNCHANGED <<tickVars, subVars, normVars, initVars, mockVars>>

PickupOp(name, c, m, ok, timer) ==
  [ n |-> lastPickup.n + 1, op |-> name, c |-> c, m |-> m, ok |-> ok,
    pre |-> store[m], post |-> store'[m], timer |-> timer ]

\* the clock of this provider is looked at every AUTO_PICKUP_MS
PickupAdvance ==
  /\ now < TimeStep + MaxEvents * AUTO_PICKUP_MS
  /\ now' = now + AUTO_PICKUP_MS
  /\ UNCHANGED <<store, cache, inbox, notifications, pickupVars>>
  /\ PickupFrame

\* the subscribeToMachines callback on a non-empty snapshot
PickupSync(c) ==
  /\ cache' = [cache EXCEPT ![c] = [m \in MACHINE_DEFINITIONS |-> normalizeMachineEmail(m, store[m])]]
  /\ UNCHANGED <<store, inbox, now, notifications, pickupVars>>
  /\ PickupFrame

PickupStart(c, m, durationMin) ==
  /\ lastPickup.n < MaxEvents
  /\ store' = [store EXCEPT ![m] =
                 startMachineEmail(cache[c][m], currentEmail(c), currentName(c), durationMin, now)]
  /\ lastPickup' = PickupOp("start", c, m, TRUE, NULL)
  /\ UNCHANGED <<cache, inbox, now, notifications, pickupTimeoutsRef>>
  /\ PickupFrame

\* finishMachine called from the card of the machine's owner
PickupFinish(c, m) ==
  /\ lastPickup.n < MaxEvents
  /\ cache[c][m].ownerEmail = currentEmail(c)
  /\ LET f == finishMachineEmail(cache[c][m], now)
     IN /\ inbox' = inbox (+) f.sent
        /\ notifications' = [notifications EXCEPT ![c] = @ (+) f.sent]
        /\ store' = [store EXCEPT ![m] = f.reset]
  /\ lastPickup' = PickupOp("finish", c, m, TRUE, NULL)
  /\ UNCHANGED <<cache, now, pickupTimeoutsRef>>
  /\ PickupFrame

\* sendReminder: after its write it clears the provider's pending timeout for the
\* machine and sets a new one that calls the finishMachine of the same render
PickupRemind(c, m) ==
  /\ lastPickup.n < MaxEvents
  /\ LET machine == cache[c][m]
         ok == sendReminderAccepted(machine, currentEmail(c), now)
         sent == SetToBag({Notification(machine.ownerEmail, "reminder", m, now)})
     IN IF ok
        THEN /\ inbox' = inbox (+) sent
             /\ notifications' = [notifications EXCEPT ![c] = @ (+) sent]
             /\ store' = [store EXCEPT ![m] = sendReminderUpdated(machine, currentEmail(c), now)]
             /\ pickupTimeoutsRef' = [pickupTimeoutsRef EXCEPT ![c][m] =
                                        [due |-> now + AUTO_PICKUP_MS, machine |-> machine]]
             /\ lastPickup' = PickupOp("remind", c, m, TRUE, NULL)
        ELSE /\ UNCHANGED <<store, inbox, notifications, pickupTimeoutsRef>>
             /\ lastPickup' = PickupOp("remind", c, m, FALSE, NULL)
  /\ UNCHANGED <<cache, now>>
  /\ PickupFrame

\* the timeout's callback, no earlier than its delay: finishMachine(id) of the render
\* the reminder was sent from, then the handle is deleted
PickupFire(c, m) ==
  /\ lastPickup.n < MaxEvents
  /\ pickupTimeoutsRef[c][m] # NULL
  /\ now >= pickupTimeoutsRef[c][m].due
  /\ LET f == finishMachineEmail(pickupTimeoutsRef[c][m].machine, now)
     IN /\ inbox' = inbox (+) f.sent
        /\ notifications' = [notifications EXCEPT ![c] = @ (+) f.sent]
        /\ store' = [store EXCEPT ![m] = f.reset]
  /\ pickupTimeoutsRef' = [pickupTimeoutsRef EXCEPT ![c][m] = NULL]
  /\ lastPickup' = PickupOp("fire", c, m, TRUE, pickupTimeoutsRef[c][m])
  /\ UNCHANGED <<cache, now>>
  /\ PickupFrame

PickupNext ==
  \/ PickupAdvance
  \/ \E c \in Clients : PickupSync(c)
  \/ \E c \in Clients, m \in MACHINE_DEFINITIONS, d \in DURATIONS : PickupStart(c, m, d)
  \/ \E c \in Clients, m \in MACHINE_DEFINITIONS : PickupFinish(c, m)
  \/ \E c \in Clients, m \in MACHINE_DEFINITIONS : PickupRemind(c, m)
  \/ \E c \in Clients, m \in MACHINE_DEFINITIONS : PickupFire(c, m)

SpecPickup == PickupInit /\ [][PickupNext]_vars

\* ------------------------------------------------------------------ claims
IsAvailable(r) == r = NULL \/ r.state = "available"
NewOp == last'.n # last.n

\* C1: of two start calls by different identities on one available machine, issued
\* before either caller has seen the other's result and with no other write to the
\* record in between, the first commits, the second returns false, and the stored
\* owner is the identity of the call that committed.
C1_ExactlyOneStartCommits ==
  [][ ( /\ NewOp
        /\ last.op = "start" /\ last'.op = "start"
        /\ last'.m = last.m
        /\ currentUid(last'.c) # currentUid(last.c)
        /\ IsAvailable(last.pre)
        /\ last'.loc.state = "available"
        /\ store[last.m] = last.post )
      => ( /\ last.ok
           /\ ~last'.ok
           /\ store'[last.m] = last.post
           /\ store'[last.m].ownerUid = currentUid(last.c) ) ]_vars

\* C1 witness: a start has just been refused on a machine the caller still saw as
\* available, because another identity's start had committed first.
C1_Witness ==
  /\ last.op = "start" /\ ~last.ok
  /\ last.loc.state = "available"
  /\ last.pre # NULL /\ last.pre.state = "in-use"
  /\ last.pre.ownerUid # currentUid(last.c)
  /\ store[last.m].ownerUid = last.pre.ownerUid

\* C2 (as claimed): a start commits only when the stored record was missing or
\* available, or in-use and owned by the caller; on every other stored record it
\* aborts, returns false and leaves the record unchanged.
C2_StartCommitsOnlyWhenFree ==
  last.op = "start" =>
    IF \/ IsAvailable(last.pre)
       \/ last.pre.state = "in-use" /\ last.pre.ownerUid = currentUid(last.c)
    THEN TRUE
    ELSE ~last.ok /\ last.post = last.pre

\* C3 (as claimed): the owner's finishMachine on their own stored-finished machine
\* commits and leaves the stored record available with every owner, timing and
\* reminder field null, zero or empty.
C3_OwnerFinishResets ==
  ( /\ last.op = "finish"
    /\ last.pre # NULL
    /\ last.pre.state = "finished"
    /\ last.pre.ownerUid = currentUid(last.c) )
  => ( /\ last.ok
       /\ last.post.state = "available"
       /\ last.post.ownerUid = NULL
       /\ last.post.ownerName = NULL
       /\ last.post.startTime = NULL
       /\ last.post.durationMin = NULL
       /\ last.post.expectedFinishTime = NULL
       /\ last.post.completedAt = NULL
       /\ last.post.completionNotifiedAt = NULL
       /\ last.post.lastReminderSent = NULL
       /\ last.post.reminderCount = <<0>>
       /\ last.post.reminderSubscribers = {}
       /\ last.post.reminderSubscribersUid = {} )

\* C4: a finishMachine by an identity that is not the stored owner (whatever its own
\* snapshot shows) aborts: it returns false and the stored record is unchanged.
C4_NonOwnerFinishAborts ==
  ( /\ last.op = "finish"
    /\ (last.pre = NULL \/ last.pre.ownerUid # currentUid(last.c)) )
  => ( ~last.ok /\ last.post = last.pre )

\* C4 witness: a finishMachine was just refused on a machine stored as owned by
\* another identity while the caller's stale snapshot still showed the caller as owner.
C4_Witness ==
  /\ last.op = "finish" /\ ~last.ok
  /\ last.pre # NULL /\ last.pre.ownerUid # NULL
  /\ last.pre.ownerUid # currentUid(last.c)
  /\ last.loc.ownerUid = currentUid(last.c)
  /\ store[last.m] = last.pre

\* C5 (as claimed): a finishMachine whose release transaction did not commit has
\* sent no pickup notification.
C5_NoPickupWithoutCommit ==
  (last.op = "finish" /\ ~last.ok) => last.sent = EmptyBag

\* C6 (as claimed): sendReminder returns false whenever the caller is the stored
\* owner of the machine.
C6_OwnerReminderRejected ==
  ( /\ last.op = "remind"
    /\ last.pre # NULL
    /\ last.pre.ownerUid = currentUid(last.c) )
  => ~last.ok

\* C7 (as claimed): after a sendReminder on a machine succeeded at time t, a
\* sendReminder on it by another caller before t + 60 s returns false, and one by a
\* non-owner at or after t + 60 s on the still finished machine returns true.
C7_ReminderThrottled ==
  ( last.op = "remind" /\ last.prevRem # NULL ) =>
    /\ ( last.prevRem.c # last.c /\ last.at < last.prevRem.t + REMINDER_THROTTLE_MS )
         => ~last.ok
    /\ ( /\ last.at >= last.prevRem.t + REMINDER_THROTTLE_MS
         /\ last.pre # NULL /\ last.pre.state = "finished"
         /\ last.pre.ownerUid # currentUid(last.c) )
         => last.ok

\* C8 (as claimed): in one cycle of a machine (from a committed start on) at most one
\* completion notification is persisted, whatever number of ticks and clients.
C8_OneCompletionPerCycle ==
  \A m \in MACHINE_DEFINITIONS : completions[m] <= 1

\* C9: every stored record is available exactly when its owner identity is null, and
\* an available record has startTime and durationMin null.
C9_AvailableIffNoOwner ==
  \A m \in MACHINE_DEFINITIONS :
    store[m] # NULL =>
      /\ (store[m].state = "available") <=> (store[m].ownerUid = NULL)
      /\ (store[m].state = "available") => (store[m].startTime = NULL /\ store[m].durationMin = NULL)

\* C9 witness: a machine that was claimed has just been released by a committed
\* finish and is stored as available again.
C9_Witness ==
  /\ last.op = "finish" /\ last.ok
  /\ last.pre.ownerUid # NULL
  /\ store[last.m].state = "available"

\* C10: every stored record in state finished has a completedAt and an
\* expectedFinishTime that is not later than the current time.
C10_FinishedIsElapsed ==
  \A m \in MACHINE_DEFINITIONS :
    (store[m] # NULL /\ store[m].state = "finished") =>
      /\ store[m].completedAt # NULL
      /\ store[m].expectedFinishTime # NULL
      /\ DateParse(store[m].expectedFinishTime) <= now

\* C10 witness: a tick has flipped a stored machine to finished, and it has also been
\* rewritten since by a reminder.
C10_Witness ==
  \E m \in MACHINE_DEFINITIONS :
    /\ store[m] # NULL
    /\ store[m].state = "finished"
    /\ store[m].reminderCount # <<0>>

\* C11 (as claimed): in every reachable state the reminder subscriber set of a stored
\* machine does not contain the identity of that machine's current owner.
C11_OwnerNeverSubscribed ==
  \A m \in MACHINE_DEFINITIONS :
    (store[m] # NULL /\ store[m].ownerUid # NULL) =>
      store[m].ownerUid[1] \notin store[m].reminderSubscribersUid

\* the stored state of a record; a missing record counts as available
StateOf(r) == IF r = NULL THEN "available" ELSE r.state

\* C12 (as claimed): the stored state of a machine changes only along available to
\* in-use, in-use to finished and finished to available; never directly from in-use
\* to available, from finished to in-use or from available to finished.
C12_LifecycleOrder ==
  [][ \A m \in MACHINE_DEFINITIONS :
        \/ StateOf(store'[m]) = StateOf(store[m])
        \/ StateOf(store[m]) = "available" /\ StateOf(store'[m]) = "in-use"
        \/ StateOf(store[m]) = "in-use" /\ StateOf(store'[m]) = "finished"
        \/ StateOf(store[m]) = "finished" /\ StateOf(store'[m]) = "available" ]_vars

\* a direct call of one of the two transactions
IsTxn == last.op \in {"startTxn", "finishTxn"}
NoUser == currentUid(last.c) = NULL
\* start on a machine in use by another identity
LostRace ==
  /\ last.op = "startTxn" /\ last.pre # NULL
  /\ last.pre.state = "in-use" /\ last.pre.ownerUid # NULL /\ last.pre.ownerUid # currentUid(last.c)
\* finish on a record that is not in use by the caller
FailedRelease ==
  /\ last.op = "finishTxn" /\ last.pre # NULL
  /\ (last.pre.state # "in-use" \/ last.pre.ownerUid # currentUid(last.c))
\* start on a record that is neither available nor in use by the caller
FailedClaim ==
  /\ last.op = "startTxn" /\ last.pre # NULL
  /\ last.pre.state # "available"
  /\ ~(last.pre.state = "in-use" /\ last.pre.ownerUid = currentUid(last.c))
ResolvedFalse == ~last.threw /\ ~last.ok /\ last.post = last.pre

Reminders(B) == [n \in {x \in BagToSet(B) : x.type = "reminder"} |-> B[n]]

C15_RejectedReminderNoEffect ==
  ( /\ last.op = "remind"
    /\ last.loc # NULL
    /\ \/ last.loc.ownerUid = NULL
       \/ last.loc.ownerUid = currentUid(last.c)
       \/ ~( \/ last.loc.state = "finished"
             \/ ( /\ last.loc.expectedFinishTime # NULL
                  /\ last.at >= DateParse(last.loc.expectedFinishTime) ) )
       \/ ( /\ last.loc.lastReminderSent # NULL
            /\ last.at - last.loc.lastReminderSent[1] < REMINDER_THROTTLE_MS ) )
  => ( /\ ~last.ok
       /\ last.post = last.pre
       /\ last.sent = EmptyBag
       /\ last.localPost = last.localPre )

\* C16 (as claimed): a finishMachine that releases a machine sends exactly one pickup
\* notification to every identity of the machine's reminder subscriber set other than
\* the owner, and none to the owner.
C16_PickupToSubscribersOnly ==
  ( last.op = "finish" /\ last.ok ) =>
    last.sent = SetToBag({ Notification(<<u>>, "pickup", last.m, last.at) :
                             u \in last.pre.reminderSubscribersUid \ {last.pre.ownerUid[1]} })

\* C17 (as claimed): when a seeding write reaches the store, every machine that is
\* stored as claimed keeps its record, and the room then holds exactly the catalog.
C17_SeedRaceKeepsClaims ==
  [][ (pendingSeeds' # pendingSeeds /\ pendingSeeds' \subseteq pendingSeeds) =>
        /\ \A m \in MACHINE_DEFINITIONS :
              (store[m] # NULL /\ store[m].ownerUid # NULL) => store'[m] = store[m]
        /\ \A m \in MACHINE_DEFINITIONS : store'[m] # NULL /\ store'[m].id = m ]_vars

\* C18 (as claimed): every store write of a provider (start, finish, sendReminder,
\* tick auto-complete, seeding) targets a machine record of the room that is the
\* provider's active room at that moment, also after the room has been switched.
C18_WritesStayInActiveRoom ==
  lastWrite # NULL => lastWrite.target = lastWrite.active

\* the elements of a list with their multiplicities
BagOfSeq(q) == [x \in {q[i] : i \in DOMAIN q} |-> Cardinality({i \in DOMAIN q : q[i] = x})]

\* C19: every list delivered to a subscriber of a recipient's inbox is ordered
\* most-recent-first (each entry's timestamp is at least that of the entry after it)
\* and holds exactly the notifications stored for that recipient.
C19_DeliveredNewestFirst ==
  [][ \A e \in Recipients :
        delivered'[e] # delivered[e] =>
          /\ \A i \in 1 .. Len(delivered'[e]) - 1 :
                delivered'[e][i].ts[1] >= delivered'[e][i + 1].ts[1]
          /\ BagOfSeq(delivered'[e]) = BagOfSeq(notifStore[encodeEmail(e)]) ]_vars

\* C19 witness: a delivered list of three or more entries whose order differs from
\* the stored (arrival) order.
C19_Witness ==
  \E e \in Recipients :
    /\ Len(delivered[e]) >= 3
    /\ delivered[e] = sortByTs(notifStore[encodeEmail(e)])
    /\ delivered[e] # notifStore[encodeEmail(e)]
    /\ delivered[e][1].ts # delivered[e][Len(delivered[e])].ts

\* C20: a sendNotification whose forwarding to the webhook fails (the relay is
\* unreachable or answers an error) does not throw, returns the id of the record, and
\* the record with that id is persisted in the recipient's inbox.
C20_ForwardFailureKeepsRecord ==
  ( lastSend.op = "forwarding" /\ lastSend.hook \in {"rejected", "unreachable"} ) =>
    /\ ~lastSend.threw
    /\ lastSend.id # NULL
    /\ \E i \in DOMAIN notifStore[btoa(lastSend.to[1])] :
          /\ notifStore[btoa(lastSend.to[1])][i].id = lastSend.id
          /\ notifStore[btoa(lastSend.to[1])][i].recipientEmail = lastSend.to

\* C20 witness: a send whose webhook was unreachable has returned an id and its
\* record is the latest of the recipient's inbox.
C20_Witness ==
  /\ lastSend.op = "forwarding" /\ lastSend.hook = "unreachable"
  /\ lastSend.id # NULL
  /\ Len(notifStore[btoa(lastSend.to[1])]) >= 1
  /\ notifStore[btoa(lastSend.to[1])][Len(notifStore[btoa(lastSend.to[1])])].id = lastSend.id

\* C21: the card of a machine, as any client's list shows it, offers Send reminder to
\* a viewer exactly when the machine is in-use or finished and the viewer is not its
\* owner; the owner is never offered Send reminder.
C21_ReminderOfferedToNonOwners ==
  \A v \in Callers, c \in Clients, m \in MACHINE_DEFINITIONS :
    cache[c][m] # NULL =>
      LET machine == cache[c][m]
          viewerOwns == machine.ownerUid # NULL /\ machine.ownerUid = currentUid(v)
          offered == SendReminderButton(machine, currentUid(v), currentEmail(v))
      IN /\ offered <=> (machine.state \in {"in-use", "finished"} /\ ~viewerOwns)
         /\ viewerOwns => ~offered

\* C21 witness: a client's list shows a machine in use; its card offers Send reminder
\* to the other client and to a signed-out viewer, and not to the owner.
C21_Witness ==
  \E c \in Clients, o \in Clients, v \in Clients, m \in MACHINE_DEFINITIONS :
    /\ cache[c][m] # NULL
    /\ cache[c][m].state = "in-use"
    /\ cache[c][m].ownerUid = currentUid(o)
    /\ v # o
    /\ SendReminderButton(cache[c][m], currentUid(v), currentEmail(v))
    /\ SendReminderButton(cache[c][m], currentUid(SignedOut), currentEmail(SignedOut))
    /\ ~SendReminderButton(cache[c][m], currentUid(o), currentEmail(o))

\* the stored owner of a record; a missing record has none
OwnerOf(r) == IF r = NULL THEN NULL ELSE r.ownerUid

\* C22 (as claimed): a step that is not a committed start or finish transaction (a
\* tick's write, sendReminder's write, a time skip, seeding) changes neither the
\* owner of a stored machine nor whether it is available.
C22_PlainWritesKeepOwnership ==
  [][ ~(NewOp /\ last'.op \in {"start", "finish"}) =>
        \A m \in MACHINE_DEFINITIONS :
          /\ OwnerOf(store'[m]) = OwnerOf(store[m])
          /\ IsAvailable(store'[m]) <=> IsAvailable(store[m]) ]_vars

\* C23 (as claimed): once a machine is stored as finished, no tick of any client
\* changes its stored completedAt (a tick is the only step that writes the store
\* without being a user operation or a clock advance).
C23_CompletedAtSetOnce ==
  [][ (last' = last /\ now' = now) =>
        \A m \in MACHINE_DEFINITIONS :
          (store[m] # NULL /\ store[m].state = "finished") =>
            (store'[m] # NULL /\ store'[m].completedAt = store[m].completedAt) ]_vars

\* C24: within one provider at most one tick execution is in progress at any time,
\* and a firing that finds a tick in progress (awaiting a notification send or its
\* store writes) returns having changed neither the store, the local list, the
\* notifications nor the execution in progress.
C24_TickSerialized ==
  [][ /\ \A c \in Clients : Len(tickRuns'[c]) <= 1
      /\ \A c \in Clients :
           (lastTick'.n # lastTick.n /\ lastTick'.c = c /\ Len(tickRuns[c]) >= 1) =>
             /\ lastTick'.kind = "skipped"
             /\ UNCHANGED <<store, cache, inbox, notifications, tickRuns, processingRef>> ]_vars

\* C24 witness: the interval fired while the provider's previous tick was still
\* awaiting its store writes, and the firing was skipped.
C24_Witness ==
  /\ lastTick.kind = "skipped"
  /\ Len(tickRuns[lastTick.c]) = 1
  /\ tickRuns[lastTick.c][1].toSend = {}
  /\ processingRef[lastTick.c]

\* C25 (as claimed): a tick replaces a machine of the local list only with a record
\* the store already holds, and when a tick returns after the write of a machine
\* failed, the local list shows that machine as the tick's snapshot had it.
C25_LocalAfterStoreWrite ==
  [][ /\ \A c \in Clients, m \in MACHINE_DEFINITIONS :
           (tickRuns[c] # <<>> /\ last' = last /\ cache'[c][m] # cache[c][m]) =>
             store[m] = cache'[c][m]
      /\ (lastTick'.kind = "returned" /\ lastTick' # lastTick) =>
           \A m \in lastTick'.failed :
             cache'[lastTick'.c][m] = lastTick'.snapshot[m] ]_vars

\* the machines listeners client c has registered at the store
Subscribed(es) == {e \in es : e.stage = "subscribed"}
\* the machines of room r as a listener's callback puts them into the list
ListOf(r) ==
  IF RoomEmpty(roomStore[r]) THEN createInitialMachineMap
  ELSE [m \in MACHINE_DEFINITIONS |->
          IF roomStore[r][m] = NULL THEN NULL ELSE normalizeMachine(m, roomStore[r][m])]

\* C26: a mounted provider holds at most one machines subscription, it is the one of
\* its active room, and it holds exactly one once the setup for the active room has
\* run; an update pushed by the store changes the local list only to the machines of
\* the active room; an unmounted provider holds no subscription of either stream, and
\* neither its machine list nor its rooms list changes any more.
C26_OneSubscriptionForActiveRoom ==
  [][ \A c \in Clients :
        /\ mounted'[c] =>
             /\ Cardinality(Subscribed(effects'[c])) <= 1
             /\ \A e \in Subscribed(effects'[c]) : e.active /\ e.room = currentRoomId'[c]
             /\ (\A e \in effects'[c] : e.active => e.stage = "subscribed")
                  => Cardinality(Subscribed(effects'[c])) = 1
        /\ ~mounted'[c] =>
             /\ Subscribed(effects'[c]) = {}
             /\ roomsEffect'[c].stage # "subscribed"
        /\ (last' = last /\ cache'[c] # cache[c]) =>
             (mounted[c] /\ cache'[c] = ListOf(currentRoomId[c]))
        /\ ~mounted[c] => (cache'[c] = cache[c] /\ rooms'[c] = rooms[c]) ]_vars

\* C26 witness: a provider that was subscribed to the default room has switched to
\* r2 and been delivered the machines of r2, which its list still shows after the
\* default room was changed by a claim; it has then been unmounted and holds no
\* subscription.
C26_Witness ==
  \E c \in Clients :
    /\ last.op = "unmount" /\ last.c = c
    /\ ~mounted[c]
    /\ currentRoomId[c] = "r2"
    /\ effects[c] = {}
    /\ roomsEffect[c].stage = "unsubscribed"
    /\ ~RoomEmpty(roomStore["r2"])
    /\ ~RoomEmpty(roomStore[DEFAULT_ROOM])
    /\ ListOf(DEFAULT_ROOM) # ListOf("r2")
    /\ cache[c] = ListOf("r2")

\* C27 (as claimed): after a committed start the stored record is in-use, its
\* startTime is the commit time, its expectedFinishTime is startTime plus durationMin
\* minutes, completedAt, completionNotifiedAt and lastReminderSent are null,
\* reminderCount is 0 and both reminder subscriber sets are empty, whatever the
\* record held before.
C27_StartResetsCycle ==
  (last.op = "start" /\ last.ok) =>
    /\ last.post.state = "in-use"
    /\ last.post.startTime = toISOString(last.at)
    /\ last.post.durationMin # NULL
    /\ last.post.expectedFinishTime = toISOString(last.at + last.post.durationMin[1] * MS_PER_MIN)
    /\ last.post.completedAt = NULL
    /\ last.post.completionNotifiedAt = NULL
    /\ last.post.lastReminderSent = NULL
    /\ last.post.reminderCount = <<0>>
    /\ last.post.reminderSubscribers = {}
    /\ last.post.reminderSubscribersUid = {}

\* machine m is stored in room r as in use with its expectedFinishTime reached
StoredElapsed(r, m) ==
  /\ roomStore[r][m] # NULL
  /\ roomStore[r][m].state = "in-use"
  /\ roomStore[r][m].expectedFinishTime # NULL
  /\ DateParse(roomStore[r][m].expectedFinishTime) <= now

\* C28 (as claimed): with the tick and the subscription of every provider running
\* on, a machine stored as in-use in the room a client observes, whose
\* expectedFinishTime the clock has reached, is eventually stored as finished in that
\* room, unless it is released first (or started again for a new cycle, or the
\* client leaves the room).
C28_ElapsedEventuallyFinished ==
  \A c \in Clients, r \in Rooms, m \in MACHINE_DEFINITIONS :
    (currentRoomId[c] = r /\ StoredElapsed(r, m))
      ~> ( \/ StateOf(roomStore[r][m]) = "finished"
           \/ StateOf(roomStore[r][m]) = "available"
           \/ ( /\ StateOf(roomStore[r][m]) = "in-use"
                /\ DateParse(roomStore[r][m].expectedFinishTime) > now )
           \/ currentRoomId[c] # r )

\* C29: normalizeMachine returns the stored expectedFinishTime unchanged when one is
\* present; when it is absent and startTime and durationMin are present it returns
\* startTime plus durationMin times 60000 ms; and a record a committed start wrote
\* reads back with expectedFinishTime equal to startTime plus durationMin minutes.
C29_NormalizeFinishTime ==
  norm # NULL =>
    LET stored == Get(raw.value, "expectedFinishTime")
        startTime == Get(raw.value, "startTime")
        durationMin == Get(raw.value, "durationMin")
    IN /\ stored # NULL => norm.expectedFinishTime = stored
       /\ (stored = NULL /\ startTime # NULL /\ durationMin # NULL) =>
             norm.expectedFinishTime = toISOString(DateParse(startTime) + durationMin[1] * 60000)
       /\ (\E c \in Clients, d \in NormDurations, t \in NormTimes :
              raw.value = WrittenByStart(c, raw.id, d, t)) =>
             /\ norm.startTime # NULL /\ norm.durationMin # NULL
             /\ norm.expectedFinishTime =
                  toISOString(DateParse(norm.startTime) + norm.durationMin[1] * MS_PER_MIN)

\* C29 witness: a record stored without expectedFinishTime, with startTime and
\* durationMin, has been read and its expectedFinishTime derived.
C29_Witness ==
  /\ norm # NULL
  /\ "expectedFinishTime" \notin DOMAIN raw.value
  /\ Get(raw.value, "startTime") # NULL
  /\ Get(raw.value, "durationMin") = <<DEFAULT_DURATION_MIN>>
  /\ norm.expectedFinishTime =
       toISOString(DateParse(raw.value.startTime) + DEFAULT_DURATION_MIN * MS_PER_MIN)

\* C30: every adapter operation invoked before initFirebase fails with an error, and
\* a provider whose store could not be initialized does not go on operating on a
\* machine list.
C30_UninitializedStoreFails ==
  /\ (lastCall.op \in AdapterOps /\ ~db[lastCall.c]) => lastCall.outcome = "throws"
  /\ (lastCall.op \in {"setup", "startMachine"} /\ ~db[lastCall.c]) =>
       lastCall.outcome = "throws"

\* the stored machines that are in use with a finish time
StoredInUse == {m \in MACHINE_DEFINITIONS :
                  /\ store[m] # NULL
                  /\ store[m].state = "in-use"
                  /\ Get(store[m], "expectedFinishTime") # NULL}

CountOf(r) == Coalesce(Get(r, "reminderCount"), <<0>>)[1]

\* a step inside one cycle of machine m: the machine is claimed before and after,
\* and the step is not a committed start or release of it
InCycleStep(m) ==
  /\ ~IsAvailable(store[m])
  /\ ~IsAvailable(store'[m])
  /\ ~(NewOp /\ last'.m = m /\ last'.ok /\ last'.op \in {"start", "finish"})

\* C32: within one cycle the stored reminderCount never decreases, and every
\* sendReminder that returns true raises it by exactly one, so that it equals the
\* number of accepted reminders of the cycle.
C32_ReminderCountCounts ==
  [][ \A m \in MACHINE_DEFINITIONS :
        InCycleStep(m) =>
          /\ CountOf(store'[m]) >= CountOf(store[m])
          /\ (NewOp /\ last'.op = "remind" /\ last'.ok /\ last'.m = m) =>
                CountOf(store'[m]) = CountOf(store[m]) + 1
          /\ ~(NewOp /\ last'.op = "remind" /\ last'.ok /\ last'.m = m) =>
                CountOf(store'[m]) = CountOf(store[m]) ]_vars

\* C33: called on the same stored record by the same caller, the mock's
\* startMachineTransaction and finishMachineTransaction commit exactly when the live
\* ones do and leave the same stored state and owner.
C33_MockMatchesLive ==
  (lastMock.n > 0 /\ lastMock.same) =>
    /\ lastMock.mock = lastMock.live
    /\ StateOf(mockStore[lastMock.m]) = StateOf(store[lastMock.m])
    /\ OwnerOf(mockStore[lastMock.m]) = OwnerOf(store[lastMock.m])

\* the stored reminder subscriber set of a record
SubsOf(r) == IF r = NULL \/ "reminderSubscribersUid" \notin DOMAIN r
             THEN {} ELSE r.reminderSubscribersUid

\* C34: an identity whose sendReminder returned true is in the stored subscriber set
\* from then on until the machine is released, and the release sends a pickup
\* notification to every identity of the stored set.
C34_SubscribersKeptUntilRelease ==
  [][ \A m \in MACHINE_DEFINITIONS :
        /\ InCycleStep(m) =>
              /\ SubsOf(store[m]) \subseteq SubsOf(store'[m])
              /\ (NewOp /\ last'.op = "remind" /\ last'.ok /\ last'.m = m
                     /\ currentUid(last'.c) # NULL) =>
                    currentUid(last'.c)[1] \in SubsOf(store'[m])
        /\ (NewOp /\ last'.op = "finish" /\ last'.ok /\ last'.m = m) =>
              \A u \in SubsOf(store[m]) :
                BagIn(Notification(<<u>>, "pickup", m, now), last'.sent) ]_vars

\* C35: a stored non-null completionNotifiedAt means that a completion notification
\* to the machine's owner, sent in the current cycle, is persisted in the inbox.
C35_NotifiedMeansPersisted ==
  \A m \in MACHINE_DEFINITIONS :
    (store[m] # NULL /\ Truthy(Get(store[m], "completionNotifiedAt"))) =>
      \E n \in BagToSet(inbox) :
        /\ n.type = "completion"
        /\ n.machineId = m
        /\ n.to = store[m].ownerUid
        /\ store[m].startTime # NULL
        /\ n.ts >= DateParse(store[m].startTime)

\* C36: whenever no tick execution of a provider is in progress its re-entrancy guard
\* is clear, whichever way the last execution ended, so the next firing is not refused.
C36_GuardReleased ==
  \A c \in Clients : tickRuns[c] = <<>> => ~tickBusy(c)

\* C36 witness: a tick whose store write was rejected has returned and the guard of
\* its provider is clear.
C36_Witness ==
  /\ lastTick.kind = "returned"
  /\ lastTick.failed # {}
  /\ tickRuns[lastTick.c] = <<>>
  /\ ~processingRef[lastTick.c]

\* a record of the local list that is in use with its finish time reached at time t
IsElapsed(r, t) ==
  /\ r # NULL
  /\ r.state = "in-use"
  /\ r.expectedFinishTime # NULL
  /\ DateParse(r.expectedFinishTime) <= t

\* C39: a tick writes to the store, sends notifications or changes the local list
\* only when its list holds an elapsed in-use machine, and then the only stored
\* records it changes are those of the elapsed machines of the room it observes.
C39_TickTouchesOnlyElapsed ==
  [][ (NewOp /\ last'.op = "tick") =>
        LET c == last'.c
        IN /\ \E m \in MACHINE_DEFINITIONS : IsElapsed(cache[c][m], now)
           /\ \A r \in Rooms, m \in MACHINE_DEFINITIONS :
                roomStore'[r][m] # roomStore[r][m] =>
                  (r = currentRoomId[c] /\ IsElapsed(cache[c][m], now)) ]_vars

\* the cycle a stored record is in: its owner and its start
CycleOf(r) == IF r = NULL \/ r.state = "available" THEN NULL ELSE <<r.ownerEmail, r.startTime>>

\* C37: the auto-pickup timeout releases only the cycle its reminder was sent for (when
\* it fires on a machine that has been released and claimed again, the stored record
\* of the new cycle stays as it is), and at most one timeout is pending per machine
C37_PickupReleasesOnlyItsCycle ==
  /\ (/\ lastPickup.op = "fire"
      /\ CycleOf(lastPickup.pre) # NULL
      /\ CycleOf(lastPickup.pre) # CycleOf(lastPickup.timer.machine))
       => lastPickup.post = lastPickup.pre
  /\ \A m \in MACHINE_DEFINITIONS :
       Cardinality({c \in Clients : pickupTimeoutsRef[c][m] # NULL}) <= 1

\* C38: once the user has selected a room that is in the rooms list, an update of the
\* rooms list that still contains that room leaves the active room as it is
C38_ListUpdateKeepsSelectedRoom ==
  [][ \A c \in Clients :
        (/\ roomsEffect'[c].seen # roomsEffect[c].seen
         /\ selectedRoom[c] = <<currentRoomId[c]>>
         /\ currentRoomId[c] \in rooms'[c])
          => currentRoomId'[c] = currentRoomId[c] ]_vars

====
